---- MODULE Spec2Model ----
(***************************************************************************)
(* Session registry and ingestion pipeline of ai-live-terminal-bridge.     *)
(*                                                                         *)
(* Every NativeHost is one OS process with a single-threaded event loop.   *)
(* An async call chain of a host (handleMessage -> startSession ->         *)
(* registerBrowserSession -> acquireLock ...) is a task.  A task runs      *)
(* synchronously until it reaches an await; other OS processes interleave  *)
(* with it at the granularity of file-system calls.                        *)
(***************************************************************************)
EXTENDS Integers, Sequences, FiniteSets, TLC

VARIABLES
  now,            \* wall clock, milliseconds (Date.now())
  ticks,          \* number of clock advances so far
  keepDays,       \* AI_KEEP_LOGS of the run
  lockFile,       \* lock name -> sentinel file .<name>.lock
  masterIndex,    \* master-browser-index.log
  activeTable,    \* active-browser-sessions.json
  activeDir,      \* session ids with a log file in browser/active
  inactiveDir,    \* session ids with a log file in browser/inactive
  logLines,       \* session id -> event lines of its log file
  host,           \* process -> fields of its NativeHost object
  activeLocks,    \* process -> module-level Set activeLocks
  tasks,          \* process -> slot -> async call chain
  running,        \* process -> slot inside a synchronous section, 0 when none
  inData,         \* process -> the stdin 'data' handler is looping over frames
  script,         \* process -> record types the producer may still send, in order
  closed,         \* process -> stdin has ended
  signalled,      \* process -> SIGINT/SIGTERM has been received
  pendingError,   \* process -> a log stream 'error' event is waiting to be emitted
  delivered,      \* process -> number of records passed to handleMessage
  usedRand,       \* random suffixes drawn so far
  generated,      \* process -> ids generated since the last finalization
  dropped,        \* process -> queued records discarded without being written
  expectedActive, \* ids whose markActive wrote and whose markCompleted did not yet
  buffer,         \* decoder: bytes buffered by the stdin 'data' handler
  pending,        \* decoder: bytes of the stream not yet delivered
  handled,        \* decoder: records passed to handleMessage, in order
  stream,         \* decoders: the record texts the producer sends, in order
  parsedEarly,    \* decoder: a frame was parsed before its declared length was buffered
  lineBuffer,     \* newline decoder: buffered text
  linePending,    \* newline decoder: characters not yet delivered
  lineHandled,    \* newline decoder: records passed to handleMessage, in order
  redactions,     \* redaction: a text and the results of redacting it again and again
  written,        \* log writers: the entries written, each with the record it came from
  sweep,          \* process -> progress of cleanupStaleBrowserSessions in start()
  reader,         \* log reader: the files of a project, the call made and what it returned
  registryFile,   \* the ActiveTable file as its bytes are, and the callers of session.ts
  accepted,       \* rate limit: pairs of a clock value and the number of records accepted at it
  mtime           \* session id -> modification time of its log file

vars == <<now, ticks, keepDays, lockFile, masterIndex, activeTable, activeDir,
          inactiveDir, logLines, host, activeLocks, tasks, running, inData,
          script, closed, signalled, pendingError, delivered, usedRand, generated,
          dropped,
          expectedActive, buffer, pending, handled, stream, parsedEarly,
          lineBuffer, linePending, lineHandled, redactions, written, sweep, mtime,
          reader, registryFile, accepted>>

fsVars == <<lockFile, masterIndex, activeTable, activeDir, inactiveDir>>
decoderVars == <<buffer, pending, handled, stream, parsedEarly,
                 lineBuffer, linePending, lineHandled>>
envVars == <<now, ticks, keepDays, sweep>>
inputVars == <<script, closed, signalled, delivered, usedRand>>
hostVars == <<host, logLines, pendingError, generated, dropped, mtime>>
pureVars == <<redactions, written, reader, registryFile, accepted>>

----------------------------------------------------------------------------
(* Bounds of the model *)

MaxMsgs == 3        \* records one producer sends in the single-host runs
LockMsgs == 1       \* records each producer sends in the two-host runs
MaxTicks == 1       \* clock advances in one run
IsoConsoles == 2    \* console records of the isolation runs
MaxFrames == 3      \* records of one decoder run

(* Program constants *)

LOCK_TIMEOUT_MS == 5000
STALE_LOCK_MS == 30000
MAX_MESSAGES_PER_SECOND == 1000
RATE_WINDOW_MS == 1000
HEADER_BYTES == 4

Procs == {"h1", "h2"}
LockNames == {"master-index", "active-sessions"}
RandVals == {1, 2}                    \* values of randomBytes(2)
MsgTypes == {"session-start", "session-end", "console", "heartbeat"}
TICK_MS == LOCK_TIMEOUT_MS + 1       \* one clock advance
Slots == 1..(MaxMsgs + 3)

NoSid == <<>>
NotStarted == 0 - 1
NoLockFile == [exists |-> FALSE, pid |-> "", mtime |-> 0]
NoStream == [open |-> FALSE, sid |-> NoSid, ended |-> FALSE]

IdleTask == [pc |-> "idle", op |-> "", stage |-> "", sid |-> NoSid,
             file |-> NoSid, msg |-> 0, t0 |-> NotStarted, content |-> <<>>, active |-> {}, wait |-> "none"]

\* start() has called cleanupStaleBrowserSessions and registered its handlers.
Swept == [pc |-> "done", stale |-> <<>>, found |-> {}]

NewHost(count) == [sessionId |-> NoSid, logStream |-> NoStream,
                   isStartingSession |-> FALSE, messageQueue |-> <<>>,
                   processingQueue |-> FALSE, messageCount |-> count,
                   rateLimitWindowStart |-> 0]

----------------------------------------------------------------------------
(* Helpers *)

Task(p, t) == tasks[p][t]

MicroReady(p) == \E t \in Slots : tasks[p][t].wait = "micro"

\* start() is inside the loop of cleanupStaleBrowserSessions: no callback and
\* no continuation of the process runs before the loop has finished.
InStart(p) == sweep[p].pc = "loop"

\* A task may take a step when it is inside its synchronous section, when its
\* continuation is in the microtask queue, or when its timer fires (timers run
\* only once the microtask queue is empty).
CanStep(p, t) ==
  \/ running[p] = t
  \/ running[p] = 0 /\ ~InStart(p) /\ tasks[p][t].wait = "micro"
  \/ running[p] = 0 /\ ~InStart(p) /\ tasks[p][t].wait = "timer" /\ ~MicroReady(p)

FreeSlot(p) == CHOOSE t \in Slots :
                 /\ tasks[p][t].pc = "idle"
                 /\ \A u \in Slots : tasks[p][u].pc = "idle" => t <= u

HasFreeSlot(p) == \E t \in Slots : tasks[p][t].pc = "idle"

Cont(tk, pc) == [tk EXCEPT !.pc = pc, !.wait = "none"]
Micro(tk, pc) == [tk EXCEPT !.pc = pc, !.wait = "micro"]

\* The task steps: it leaves the 'data' handler's loop unless it is the
\* loop's own synchronous continuation.
TaskStep(p, t, tk, sync) ==
  /\ tasks' = [tasks EXCEPT ![p][t] = tk]
  /\ running' = [running EXCEPT ![p] = IF sync THEN t ELSE 0]
  /\ inData' = [inData EXCEPT ![p] = IF running[p] = t THEN @ ELSE FALSE]

ProjectOf(p) == p

----------------------------------------------------------------------------
(* Mutex Coordinator: acquireLock / releaseLock *)

LockOf(stage) == IF stage = "register" THEN "master-index" ELSE "active-sessions"

\* The caller of a registry function resumes, one microtask later, where the
\* function was awaited (startSession lines 318-324, endSession line 365).
\* cleanupStaleBrowserSessions does not await its calls: nothing resumes.
AfterRegistry(tk) ==
  CASE tk.op = "sweep" -> IdleTask
    [] tk.stage = "register" ->
         [tk EXCEPT !.pc = "acq_check", !.stage = "markActive",
                    !.t0 = NotStarted, !.wait = "micro",
                    !.content = <<>>, !.active = {}]
    [] tk.stage = "markActive" ->
         [tk EXCEPT !.pc = "ss_open", !.wait = "micro", !.t0 = NotStarted,
                    !.content = <<>>, !.active = {}]
    [] OTHER ->
         [tk EXCEPT !.pc = "es_finally", !.wait = "micro", !.t0 = NotStarted,
                    !.content = <<>>, !.active = {}]

\* acquireLock returned false and the failure ended the caller for good.
LockFailed_Fatal(tk) == IdleTask

\* if (!(await acquireLock(...))) { console.error(...); return; }
\* The registry function returns without writing, as if it had finished.
LockFailed(tk) == AfterRegistry(tk)

\* while (activeLocks.has(lockName) || existsSync(lockFile))
LockBusy(p, l) == l \in activeLocks[p] \/ lockFile[l].exists

\* Date.now() - startTime > timeoutMs
TimedOut(start) == now - start > LOCK_TIMEOUT_MS

\* No sentinel ever counts as stale.
IsStale_Never(l) == FALSE

\* fileAge > 30000
IsStale(l) == lockFile[l].exists /\ now - lockFile[l].mtime > STALE_LOCK_MS

\* One evaluation of the wait loop's condition: sleep, time out, or pass the
\* check and add the name to activeLocks (the sentinel is written by AcqWrite).
\* startSession's call of markBrowserSessionActive passes this.sessionId as it
\* is when the call is made, after the await of registerBrowserSession.
AcqCheck(p, t) ==
  /\ CanStep(p, t)
  /\ Task(p, t).pc = "acq_check"
  /\ LET called == Task(p, t).t0 = NotStarted
         tk == IF called /\ Task(p, t).stage = "markActive"
               THEN [Task(p, t) EXCEPT !.sid = host[p].sessionId]
               ELSE Task(p, t)
         l == LockOf(tk.stage)
         start == IF called THEN now ELSE tk.t0
     IN IF LockBusy(p, l)
        THEN IF TimedOut(start)
             THEN /\ TaskStep(p, t, Cont([tk EXCEPT !.t0 = start], "acq_stale"), TRUE)
                  /\ UNCHANGED activeLocks
             ELSE /\ TaskStep(p, t, [tk EXCEPT !.t0 = start, !.wait = "timer"], FALSE)
                  /\ UNCHANGED activeLocks
        ELSE /\ TaskStep(p, t, Cont([tk EXCEPT !.t0 = start], "acq_write"), TRUE)
             /\ activeLocks' = [activeLocks EXCEPT ![p] = @ \cup {l}]
  /\ UNCHANGED <<fsVars, envVars, inputVars, expectedActive, decoderVars, pureVars,
                 hostVars>>

\* Timeout: statSync of the sentinel; a young sentinel makes acquireLock fail.
AcqStale(p, t) ==
  /\ CanStep(p, t)
  /\ Task(p, t).pc = "acq_stale"
  /\ LET tk == Task(p, t)
     IN IF IsStale(LockOf(tk.stage))
        THEN TaskStep(p, t, Cont(tk, "acq_unlink"), TRUE)
        ELSE TaskStep(p, t, LockFailed(tk), FALSE)
  /\ UNCHANGED <<fsVars, activeLocks, envVars, inputVars, expectedActive,
                 decoderVars, pureVars, hostVars>>

\* unlinkSync of the stale sentinel, then return false.
AcqUnlink(p, t) ==
  /\ CanStep(p, t)
  /\ Task(p, t).pc = "acq_unlink"
  /\ LET tk == Task(p, t)
     IN /\ lockFile' = [lockFile EXCEPT ![LockOf(tk.stage)] = NoLockFile]
        /\ TaskStep(p, t, LockFailed(tk), FALSE)
  /\ UNCHANGED <<masterIndex, activeTable, activeDir, inactiveDir,
                 activeLocks, envVars, inputVars, expectedActive, decoderVars, pureVars, hostVars>>

\* The first statement of the critical section that follows a successful
\* acquireLock.
SectionOf(stage) ==
  CASE stage = "register" -> "reg_read"
    [] stage = "markActive" -> "ma_read"
    [] OTHER -> "mc_read"

\* writeFileSync(lockFile, pid); return true.
AcqWrite(p, t) ==
  /\ CanStep(p, t)
  /\ Task(p, t).pc = "acq_write"
  /\ LET tk == Task(p, t)
     IN /\ lockFile' = [lockFile EXCEPT ![LockOf(tk.stage)] =
                          [exists |-> TRUE, pid |-> p, mtime |-> now]]
        /\ TaskStep(p, t, Micro(tk, SectionOf(tk.stage)), FALSE)
  /\ UNCHANGED <<masterIndex, activeTable, activeDir, inactiveDir,
                 activeLocks, envVars, inputVars, expectedActive, decoderVars, pureVars, hostVars>>

\* releaseLock: activeLocks.delete, unlinkSync when the sentinel exists.
Release(p, t) ==
  /\ CanStep(p, t)
  /\ Task(p, t).pc = "release"
  /\ LET tk == Task(p, t)
         l == LockOf(tk.stage)
     IN /\ activeLocks' = [activeLocks EXCEPT ![p] = @ \ {l}]
        /\ lockFile' = [lockFile EXCEPT ![l] = NoLockFile]
        /\ IF tk.stage = "markCompleted"
           THEN TaskStep(p, t, Cont(tk, "mc_move"), TRUE)
           ELSE TaskStep(p, t, AfterRegistry(tk), FALSE)
  /\ UNCHANGED <<masterIndex, activeTable, activeDir, inactiveDir, envVars,
                 inputVars, expectedActive, decoderVars, pureVars, hostVars>>

\* A task is between a successful acquireLock and its releaseLock.
HoldsLock(p, t, l) ==
  /\ LockOf(tasks[p][t].stage) = l
  /\ tasks[p][t].pc \in {"reg_read", "reg_write", "ma_read", "ma_write",
                         "mc_read", "mc_write", "release"}

----------------------------------------------------------------------------
(* Session Registry: registerBrowserSession, markBrowserSessionActive,      *)
(* markBrowserSessionCompleted                                              *)

Entry(p, sid) == [sessionId |-> sid, projectDir |-> ProjectOf(p)]

\* existsSync(masterPath) ? readFileSync(masterPath) : ''
RegRead(p, t) ==
  /\ CanStep(p, t)
  /\ Task(p, t).pc = "reg_read"
  /\ LET tk == Task(p, t)
         content == IF masterIndex.exists THEN masterIndex.data ELSE <<>>
     IN TaskStep(p, t, Cont([tk EXCEPT !.content = content], "reg_write"), TRUE)
  /\ UNCHANGED <<fsVars, activeLocks, envVars, inputVars, expectedActive,
                 decoderVars, pureVars, hostVars>>

\* writeFileSync(masterPath, content + entry)
AppendEntry(content, e) == Append(content, e)

RegWrite(p, t) ==
  /\ CanStep(p, t)
  /\ Task(p, t).pc = "reg_write"
  /\ LET tk == Task(p, t)
     IN /\ masterIndex' = [exists |-> TRUE,
                           data |-> AppendEntry(tk.content, Entry(p, tk.sid))]
        /\ TaskStep(p, t, Cont(tk, "release"), TRUE)
  /\ UNCHANGED <<lockFile, activeTable, activeDir, inactiveDir,
                 activeLocks, envVars, inputVars, expectedActive, decoderVars, pureVars, hostVars>>

Keys(table) == {e.sessionId : e \in table}

\* active[sessionId] = {projectDir, startTime}
PutEntry(table, sid, proj, start) ==
  {e \in table : e.sessionId # sid}
    \cup {[sessionId |-> sid, projectDir |-> proj, startTime |-> start]}

\* delete active[sessionId]
DeleteEntry(table, sid) == {e \in table : e.sessionId # sid}

\* existsSync(activePath) ? JSON.parse(readFileSync(activePath)) : {}
MaRead(p, t) ==
  /\ CanStep(p, t)
  /\ Task(p, t).pc = "ma_read"
  /\ LET tk == Task(p, t)
         active == IF activeTable.exists THEN activeTable.data ELSE {}
     IN TaskStep(p, t, Cont([tk EXCEPT !.active = active], "ma_write"), TRUE)
  /\ UNCHANGED <<fsVars, activeLocks, envVars, inputVars, expectedActive,
                 decoderVars, pureVars, hostVars>>

MaWrite(p, t) ==
  /\ CanStep(p, t)
  /\ Task(p, t).pc = "ma_write"
  /\ LET tk == Task(p, t)
     IN /\ activeTable' = [exists |-> TRUE,
                           data |-> PutEntry(tk.active, tk.sid, ProjectOf(p), now)]
        /\ expectedActive' = expectedActive \cup {tk.sid}
        /\ TaskStep(p, t, Cont(tk, "release"), TRUE)
  /\ UNCHANGED <<lockFile, masterIndex, activeDir, inactiveDir,
                 activeLocks, envVars, inputVars, decoderVars, pureVars, hostVars>>

\* if (existsSync(activePath)) { read; delete; write }
McRead(p, t) ==
  /\ CanStep(p, t)
  /\ Task(p, t).pc = "mc_read"
  /\ LET tk == Task(p, t)
     IN IF activeTable.exists
        THEN TaskStep(p, t, Cont([tk EXCEPT !.active = activeTable.data], "mc_write"), TRUE)
        ELSE TaskStep(p, t, Cont(tk, "release"), TRUE)
  /\ UNCHANGED <<fsVars, activeLocks, envVars, inputVars, expectedActive,
                 decoderVars, pureVars, hostVars>>

McWrite(p, t) ==
  /\ CanStep(p, t)
  /\ Task(p, t).pc = "mc_write"
  /\ LET tk == Task(p, t)
     IN /\ activeTable' = [exists |-> TRUE, data |-> DeleteEntry(tk.active, tk.sid)]
        /\ expectedActive' = expectedActive \ {tk.sid}
        /\ TaskStep(p, t, Cont(tk, "release"), TRUE)
  /\ UNCHANGED <<lockFile, masterIndex, activeDir, inactiveDir,
                 activeLocks, envVars, inputVars, decoderVars, pureVars, hostVars>>

\* archiveLog = keepDays > 0
ArchiveLog == keepDays > 0

\* The file move of markBrowserSessionCompleted: rename active -> inactive
\* when archiving, unlink otherwise; nothing when the active file is missing.
\* endSession passes archiveLog = keepDays > 0, the sweep passes true.
McMove(p, t) ==
  /\ CanStep(p, t)
  /\ Task(p, t).pc = "mc_move"
  /\ LET tk == Task(p, t)
     IN /\ IF tk.sid \in activeDir
           THEN /\ activeDir' = activeDir \ {tk.sid}
                /\ inactiveDir' = IF ArchiveLog \/ tk.op = "sweep"
                                  THEN inactiveDir \cup {tk.sid}
                                  ELSE inactiveDir
           ELSE UNCHANGED <<activeDir, inactiveDir>>
        /\ TaskStep(p, t, AfterRegistry(tk), FALSE)
  /\ UNCHANGED <<lockFile, masterIndex, activeTable, activeLocks, envVars,
                 inputVars, expectedActive, decoderVars, pureVars, hostVars>>

----------------------------------------------------------------------------------------------------------------------------------------
(* NativeHost: handleMessage, startSession, endSession, processMessageQueue *)

\* What one step of a host computes: its new fields, the task it leaves
\* behind, whether that task is still inside its synchronous section, the log
\* files, and the bookkeeping of generated ids and discarded records.
St(p, h) == [h |-> h, tk |-> IdleTask, sync |-> FALSE, lines |-> logLines,
             mt |-> mtime,
             gen |-> generated[p], drop |-> dropped[p], perr |-> pendingError[p]]

Apply(p, t, e, inLoop) ==
  /\ host' = [host EXCEPT ![p] = e.h]
  /\ tasks' = [tasks EXCEPT ![p][t] = e.tk]
  /\ running' = [running EXCEPT ![p] = IF e.sync THEN t ELSE 0]
  /\ logLines' = e.lines
  /\ mtime' = e.mt
  /\ generated' = [generated EXCEPT ![p] = e.gen]
  /\ dropped' = [dropped EXCEPT ![p] = e.drop]
  /\ pendingError' = [pendingError EXCEPT ![p] = e.perr]
  /\ inData' = [inData EXCEPT ![p] = inLoop]

Range(q) == {q[i] : i \in 1..Len(q)}

\* checkRateLimit: reset the counter once a second has elapsed, count the
\* record, accept it unless the count exceeds MAX_MESSAGES_PER_SECOND.
CheckRateLimit(h) ==
  LET reset == now - h.rateLimitWindowStart >= RATE_WINDOW_MS
      count == (IF reset THEN 0 ELSE h.messageCount) + 1
      start == IF reset THEN now ELSE h.rateLimitWindowStart
  IN [ok |-> count <= MAX_MESSAGES_PER_SECOND,
      h |-> [h EXCEPT !.messageCount = count, !.rateLimitWindowStart = start]]

\* generateBrowserSessionId: the clock to the second and two random bytes.
GenerateBrowserSessionId(r) == <<now \div 1000, r>>

\* logConsole / logNetwork / logError / logPerformance: return when there is
\* no stream; a write to a stream that has ended fails with an 'error' event.
\* A record that had been queued and is not written counts as discarded.
WriteLine(e, n, queued) ==
  IF ~e.h.logStream.open
  THEN [e EXCEPT !.drop = IF queued THEN @ \cup {n} ELSE @]
  ELSE IF e.h.logStream.ended
       THEN [e EXCEPT !.drop = IF queued THEN @ \cup {n} ELSE @, !.perr = TRUE]
       ELSE [e EXCEPT !.lines = [@ EXCEPT ![e.h.logStream.sid] = Append(@, n)],
                      !.mt = [@ EXCEPT ![e.h.logStream.sid] = now]]

\* startSession without its "start already in progress" return.
StartRefused_NoFlag(h) == h.sessionId # NoSid /\ h.logStream.open

\* The two early returns of startSession.
StartRefused(h) == h.sessionId # NoSid \/ h.isStartingSession

\* startSession up to its first await (inside registerBrowserSession).
StartSession(e, op, n, r) ==
  IF StartRefused(e.h)
  THEN [e EXCEPT !.tk = [IdleTask EXCEPT !.pc = "hm_after", !.op = op,
                                         !.msg = n, !.wait = "micro"]]
  ELSE [e EXCEPT !.h = [e.h EXCEPT !.isStartingSession = TRUE,
                                   !.sessionId = GenerateBrowserSessionId(r)],
                 !.tk = [IdleTask EXCEPT !.pc = "acq_check", !.op = op,
                                         !.stage = "register", !.msg = n,
                                         !.sid = GenerateBrowserSessionId(r),
                                         !.file = GenerateBrowserSessionId(r),
                                         !.t0 = now],
                 !.sync = TRUE,
                 !.gen = @ + 1]

\* The finally block of endSession.  Records still queued although the
\* session had become ready are discarded with the queue.
Finalize(e) ==
  [e EXCEPT !.h = [e.h EXCEPT !.sessionId = NoSid, !.logStream = NoStream,
                              !.isStartingSession = FALSE, !.messageQueue = <<>>],
            !.drop = IF e.h.logStream.open THEN @ \cup Range(e.h.messageQueue) ELSE @,
            !.gen = 0,
            !.tk = IdleTask]

\* endSession up to its first await (inside markBrowserSessionCompleted).
EndSession(e) ==
  IF e.h.sessionId = NoSid /\ ~e.h.logStream.open
  THEN e
  ELSE LET ended == [e EXCEPT !.h = [e.h EXCEPT !.logStream =
                                      IF @.open THEN [@ EXCEPT !.ended = TRUE] ELSE @]]
       IN IF e.h.sessionId # NoSid
          THEN [ended EXCEPT !.tk = [IdleTask EXCEPT !.pc = "acq_check", !.op = "end",
                                                     !.stage = "markCompleted",
                                                     !.sid = e.h.sessionId, !.t0 = now],
                             !.sync = TRUE]
          ELSE Finalize(ended)

\* The session is not ready for an ordinary record.
NotReady(h) == h.sessionId = NoSid \/ ~h.logStream.open

\* handleMessage for console / network / error / performance records.
Ordinary(e, n, r) ==
  IF NotReady(e.h)
  THEN IF e.h.isStartingSession
       THEN [e EXCEPT !.h = [e.h EXCEPT !.messageQueue = Append(@, n)]]
       ELSE StartSession(e, "auto", n, r)
  ELSE WriteLine(e, n, FALSE)

\* handleMessage up to its first await.
HandleMessage(p, m, n, r) ==
  LET rl == CheckRateLimit(host[p])
      e == St(p, rl.h)
  IN IF ~rl.ok THEN e
     ELSE CASE m = "session-start" -> StartSession(e, "start", 0, r)
            [] m = "session-end" -> EndSession(e)
            [] m = "heartbeat" -> e
            [] OTHER -> Ordinary(e, n, r)

Participates(p) == Len(script[p]) + delivered[p] > 0

\* The random suffixes are interchangeable: a draw is one of the values drawn
\* before or the least value not drawn yet.
RandChoice(r) ==
  r \in usedRand \/ (r \notin usedRand /\ \A q \in RandVals \ usedRand : r <= q)

\* The stdin 'data' handler passes the next validated record to
\* handleMessage.  Records of one chunk are handled back to back; a new chunk
\* is read only when the microtask queue is empty.
Deliver(p, m, r) ==
  /\ running[p] = 0
  /\ inData[p] \/ ~MicroReady(p)
  /\ script[p] # <<>>
  /\ m \in Head(script[p])
  /\ RandChoice(r)
  /\ ~closed[p]
  /\ HasFreeSlot(p)
  /\ LET e == HandleMessage(p, m, delivered[p] + 1, r)
     IN /\ Apply(p, FreeSlot(p), e, TRUE)
        /\ usedRand' = IF e.tk.stage = "register" THEN usedRand \cup {r} ELSE usedRand
  /\ script' = [script EXCEPT ![p] = Tail(@)]
  /\ delivered' = [delivered EXCEPT ![p] = @ + 1]
  /\ UNCHANGED <<fsVars, activeLocks, envVars, closed, signalled,
                 expectedActive, decoderVars, pureVars>>

\* process.stdin.on('end', () => this.endSession())
StdinEnd(p) ==
  /\ running[p] = 0
  /\ ~MicroReady(p)
  /\ Participates(p)
  /\ ~closed[p]
  /\ HasFreeSlot(p)
  /\ Apply(p, FreeSlot(p), EndSession(St(p, host[p])), FALSE)
  /\ closed' = [closed EXCEPT ![p] = TRUE]
  /\ UNCHANGED <<fsVars, activeLocks, envVars, script, signalled, delivered,
                 usedRand, expectedActive, decoderVars, pureVars>>

\* process.on('SIGINT' / 'SIGTERM', () => this.endSession())
Signal(p) ==
  /\ running[p] = 0
  /\ ~MicroReady(p)
  /\ Participates(p)
  /\ ~signalled[p]
  /\ HasFreeSlot(p)
  /\ Apply(p, FreeSlot(p), EndSession(St(p, host[p])), FALSE)
  /\ signalled' = [signalled EXCEPT ![p] = TRUE]
  /\ UNCHANGED <<fsVars, activeLocks, envVars, script, closed, delivered,
                 usedRand, expectedActive, decoderVars, pureVars>>

\* this.logStream.on('error', () => this.endSession())
StreamError(p) ==
  /\ running[p] = 0
  /\ ~MicroReady(p)
  /\ pendingError[p]
  /\ HasFreeSlot(p)
  /\ Apply(p, FreeSlot(p),
           EndSession([St(p, host[p]) EXCEPT !.perr = FALSE]), FALSE)
  /\ UNCHANGED <<fsVars, activeLocks, envVars, inputVars, expectedActive,
                 decoderVars, pureVars>>

\* createWriteStream(logFilePath, {flags: 'w'}), the header, and the finally
\* block of startSession.
SsOpen(p, t) ==
  /\ CanStep(p, t)
  /\ Task(p, t).pc = "ss_open"
  /\ LET tk == Task(p, t)
         e == St(p, [host[p] EXCEPT
                      !.logStream = [open |-> TRUE, sid |-> tk.file, ended |-> FALSE],
                      !.isStartingSession = FALSE])
     IN /\ Apply(p, t, [e EXCEPT !.tk = Micro(tk, "hm_after"),
                                 !.lines = (tk.file :> <<>>) @@ logLines,
                                 !.mt = (tk.file :> now) @@ mtime], FALSE)
        /\ activeDir' = activeDir \cup {tk.file}
  /\ UNCHANGED <<lockFile, masterIndex, activeTable, inactiveDir, activeLocks,
                 envVars, inputVars, expectedActive, decoderVars, pureVars>>

\* One iteration of processMessageQueue's loop.
QueueIter(e) ==
  IF e.h.messageQueue = <<>>
  THEN [e EXCEPT !.h = [e.h EXCEPT !.processingQueue = FALSE], !.tk = IdleTask]
  ELSE LET n == Head(e.h.messageQueue)
           shifted == [e EXCEPT !.h = [e.h EXCEPT !.messageQueue = Tail(@),
                                                  !.processingQueue = TRUE]]
       IN [WriteLine(shifted, n, TRUE) EXCEPT
             !.tk = [IdleTask EXCEPT !.pc = "pq", !.op = "start", !.wait = "micro"]]

\* handleMessage after "await this.startSession(...)": a session-start record
\* replays the queue, an auto-starting record is written.
AfterStart(e, tk) ==
  IF tk.op = "auto"
  THEN [WriteLine(e, tk.msg, FALSE) EXCEPT !.tk = IdleTask]
  ELSE IF e.h.processingQueue THEN [e EXCEPT !.tk = IdleTask] ELSE QueueIter(e)

HmAfter(p, t) ==
  /\ CanStep(p, t)
  /\ Task(p, t).pc = "hm_after"
  /\ Apply(p, t, AfterStart(St(p, host[p]), Task(p, t)), FALSE)
  /\ UNCHANGED <<fsVars, activeLocks, envVars, inputVars, expectedActive,
                 decoderVars, pureVars>>

PqLoop(p, t) ==
  /\ CanStep(p, t)
  /\ Task(p, t).pc = "pq"
  /\ Apply(p, t, QueueIter(St(p, host[p])), FALSE)
  /\ UNCHANGED <<fsVars, activeLocks, envVars, inputVars, expectedActive,
                 decoderVars, pureVars>>

EsFinally(p, t) ==
  /\ CanStep(p, t)
  /\ Task(p, t).pc = "es_finally"
  /\ Apply(p, t, Finalize(St(p, host[p])), FALSE)
  /\ UNCHANGED <<fsVars, activeLocks, envVars, inputVars, expectedActive,
                 decoderVars, pureVars>>

\* Time passes (between, not inside, synchronous sections).
Tick ==
  /\ ticks < MaxTicks
  /\ \A p \in Procs : running[p] = 0
  /\ now' = now + TICK_MS
  /\ ticks' = ticks + 1
  /\ UNCHANGED <<keepDays, sweep, fsVars, hostVars, activeLocks, tasks, running,
                 inData, inputVars, expectedActive, decoderVars, pureVars>>

----------------------------------------------------------------------------
(* Specifications of the registry and the host *)

LockStep(p, t) ==
  \/ AcqCheck(p, t) \/ AcqWrite(p, t) \/ Release(p, t)

StaleStep(p, t) ==
  \/ AcqStale(p, t) \/ AcqUnlink(p, t)

RegistryStep(p, t) ==
  \/ RegRead(p, t) \/ RegWrite(p, t)
  \/ MaRead(p, t) \/ MaWrite(p, t)
  \/ McRead(p, t) \/ McWrite(p, t) \/ McMove(p, t)

HostStep(p, t) ==
  \/ SsOpen(p, t) \/ HmAfter(p, t) \/ EsFinally(p, t)

CoreNext ==
  \/ \E p \in Procs, t \in Slots :
       LockStep(p, t) \/ RegistryStep(p, t) \/ HostStep(p, t)
  \/ \E p \in Procs, m \in MsgTypes, r \in RandVals : Deliver(p, m, r)

HostNext ==
  \/ CoreNext
  \/ \E p \in Procs, t \in Slots : StaleStep(p, t) \/ PqLoop(p, t)
  \/ \E p \in Procs : StdinEnd(p) \/ Signal(p) \/ StreamError(p)
  \/ Tick

\* A sentinel left behind by a process that was killed while holding a lock,
\* just before the run or more than STALE_LOCK_MS before it.
LeftLocks ==
  {[l \in LockNames |-> NoLockFile]}
    \cup {[l \in LockNames |-> IF l = k
                               THEN [exists |-> TRUE, pid |-> "killed", mtime |-> m]
                               ELSE NoLockFile] :
            k \in LockNames, m \in {0, 0 - STALE_LOCK_MS}}

\* No reader has been called: there is no project file to read.
ReaderIdle == [called |-> "none"]

\* No process is calling the registry functions of session.ts.
NoCallers == [form |-> "missing", data |-> {}, proc |-> <<>>]

\* checkRateLimit has accepted no record.
NoneAccepted == {}

\* No text has been redacted, no log entry formed and no log read yet.
PureIdle ==
  /\ redactions = <<>> /\ written = <<>> /\ reader = ReaderIdle
  /\ registryFile = NoCallers /\ accepted = NoneAccepted

DecoderIdle ==
  /\ buffer = <<>> /\ pending = <<>> /\ handled = <<>> /\ stream = <<>>
  /\ parsedEarly = FALSE
  /\ lineBuffer = <<>> /\ linePending = <<>> /\ lineHandled = <<>>

RegistryEmpty ==
  /\ now = 0 /\ ticks = 0
  /\ masterIndex = [exists |-> FALSE, data |-> <<>>]
  /\ activeTable = [exists |-> FALSE, data |-> {}]
  /\ activeDir = {} /\ inactiveDir = {}
  /\ logLines = [s \in {} |-> <<>>]
  /\ activeLocks = [p \in Procs |-> {}]
  /\ tasks = [p \in Procs |-> [t \in Slots |-> IdleTask]]
  /\ running = [p \in Procs |-> 0]
  /\ inData = [p \in Procs |-> FALSE]
  /\ closed = [p \in Procs |-> FALSE]
  /\ signalled = [p \in Procs |-> FALSE]
  /\ pendingError = [p \in Procs |-> FALSE]
  /\ delivered = [p \in Procs |-> 0]
  /\ usedRand = {}
  /\ generated = [p \in Procs |-> 0]
  /\ dropped = [p \in Procs |-> {}]
  /\ expectedActive = {}
  /\ mtime = [s \in {} |-> 0]
  /\ sweep = [p \in Procs |-> Swept]

\* The environments a host starts in: the default one (AI_KEEP_LOGS = 1, no
\* sentinel, a fresh rate counter) and those that depart from it in one
\* respect: logs not kept, a counter one short of the limit (after a burst of
\* heartbeats, which leave no other trace), or a sentinel left behind.
Environments ==
  {[keep |-> k, count |-> 0, locks |-> [l \in LockNames |-> NoLockFile]] : k \in {0, 1}}
    \cup {[keep |-> 1, count |-> MAX_MESSAGES_PER_SECOND - 1,
           locks |-> [l \in LockNames |-> NoLockFile]]}
    \cup {[keep |-> 1, count |-> 0, locks |-> f] : f \in LeftLocks}

HostInit ==
  /\ RegistryEmpty
  /\ PureIdle
  /\ DecoderIdle
  /\ \E env \in Environments :
       /\ keepDays = env.keep
       /\ lockFile = env.locks
       /\ host = [p \in Procs |-> NewHost(IF p = "h1" THEN env.count ELSE 0)]
  /\ script = [p \in Procs |-> IF p = "h1" THEN [i \in 1..MaxMsgs |-> MsgTypes]
                               ELSE <<>>]

SpecHost == HostInit /\ [][HostNext]_vars

\* Two hosts, sibling processes sharing the registry; each receives up to
\* LockMsgs session-start or console records and then the end of its input.
LockNext ==
  \/ CoreNext
  \/ \E p \in Procs : StdinEnd(p)

LockInit ==
  /\ RegistryEmpty
  /\ PureIdle
  /\ DecoderIdle
  /\ keepDays = 1
  /\ lockFile = [l \in LockNames |-> NoLockFile]
  /\ host = [p \in Procs |-> NewHost(0)]
  /\ script = [p \in Procs |-> [i \in 1..LockMsgs |-> {"session-start"}]]

SpecLock == LockInit /\ [][LockNext]_vars

\* One page connection: a start record, N console records, an end record.
IsoScript(n) ==
  <<{"session-start"}>> \o [i \in 1..n |-> {"console"}] \o <<{"session-end"}>>

IsoNext ==
  \/ CoreNext
  \/ \E p \in Procs, t \in Slots : PqLoop(p, t)

IsoInit ==
  /\ RegistryEmpty
  /\ PureIdle
  /\ DecoderIdle
  /\ keepDays = 1
  /\ lockFile = [l \in LockNames |-> NoLockFile]
  /\ host = [p \in Procs |-> NewHost(0)]
  /\ \E n \in 0..IsoConsoles :
       script = [p \in Procs |-> IF p = "h1" THEN IsoScript(n) ELSE <<>>]

SpecIso == IsoInit /\ [][IsoNext]_vars

\* A write on an open log stream fails (the disk is full, the file system
\* reports an I/O error): the stream will emit 'error'.
StreamFails(p) ==
  /\ running[p] = 0
  /\ host[p].logStream.open
  /\ ~host[p].logStream.ended
  /\ ~pendingError[p]
  /\ pendingError' = [pendingError EXCEPT ![p] = TRUE]
  /\ UNCHANGED <<host, logLines, generated, dropped, mtime, fsVars, activeLocks,
                 tasks, running, inData, envVars, inputVars, expectedActive,
                 decoderVars, pureVars>>

\* Two hosts: h1's connection starts a session and logs, h2's connection
\* starts a session; the log stream of either may fail at any moment.
ErrorScript(p) ==
  IF p = "h1" THEN <<{"session-start"}, {"console"}>> ELSE <<{"session-start"}>>

ErrorNext ==
  \/ CoreNext
  \/ \E p \in Procs, t \in Slots : PqLoop(p, t)
  \/ \E p \in Procs : StreamFails(p) \/ StreamError(p)

ErrorInit ==
  /\ RegistryEmpty
  /\ PureIdle
  /\ DecoderIdle
  /\ keepDays = 1
  /\ lockFile = [l \in LockNames |-> NoLockFile]
  /\ host = [p \in Procs |-> NewHost(0)]
  /\ script = [p \in Procs |-> ErrorScript(p)]

SpecError == ErrorInit /\ [][ErrorNext]_vars

\* One page connection that starts while a sentinel left by a killed process
\* may block one of the two locks: a start record and a console record.
TimeoutScript == <<{"session-start"}, {"console"}>>

TimeoutNext ==
  \/ \E p \in Procs, t \in Slots :
       \/ LockStep(p, t) \/ StaleStep(p, t)
       \/ RegRead(p, t) \/ RegWrite(p, t) \/ MaRead(p, t) \/ MaWrite(p, t)
       \/ SsOpen(p, t) \/ HmAfter(p, t) \/ PqLoop(p, t)
  \/ \E p \in Procs, m \in MsgTypes, r \in RandVals : Deliver(p, m, r)
  \/ Tick

TimeoutInit ==
  /\ RegistryEmpty
  /\ PureIdle
  /\ DecoderIdle
  /\ keepDays = 1
  /\ lockFile \in LeftLocks
  /\ host = [p \in Procs |-> NewHost(0)]
  /\ script = [p \in Procs |-> IF p = "h1" THEN TimeoutScript ELSE <<>>]

SpecTimeout == TimeoutInit /\ [][TimeoutNext]_vars

----------------------------------------------------------------------------
(* Ingestion Decoder: the stdin 'data' handlers of the two hosts *)

\* The characters of the record texts, as byte values.
Ch == [lbrace |-> 123, rbrace |-> 125, c |-> 99, n |-> 110, q |-> 113,
       five |-> 53, space |-> 32, newline |-> 10]

\* Record texts: two records that satisfy BrowserMessageSchema, and texts that
\* do not: an object of an unknown type, a truncated object, a bare number,
\* an empty text and a blank one.
ValidBodies == {<<Ch.lbrace, Ch.c, Ch.rbrace>>, <<Ch.lbrace, Ch.n, Ch.rbrace>>}
InvalidBodies == {<<Ch.lbrace, Ch.q, Ch.rbrace>>, <<Ch.lbrace, Ch.c>>,
                  <<Ch.five>>, <<>>, <<Ch.space>>}
Bodies == ValidBodies \cup InvalidBodies

RECURSIVE TrimLeft(_)
TrimLeft(text) ==
  IF text # <<>> /\ Head(text) \in {Ch.space, Ch.newline}
  THEN TrimLeft(Tail(text)) ELSE text

RECURSIVE TrimRight(_)
TrimRight(text) ==
  IF text # <<>> /\ text[Len(text)] \in {Ch.space, Ch.newline}
  THEN TrimRight(SubSeq(text, 1, Len(text) - 1)) ELSE text

\* String.prototype.trim
Trim(text) == TrimRight(TrimLeft(text))

\* JSON.parse: an object with one member or a number, surrounded by optional
\* white space; anything else throws.
JsonParse(text) ==
  LET t == Trim(text)
  IN IF Len(t) = 3 /\ t[1] = Ch.lbrace /\ t[3] = Ch.rbrace /\ t[2] \in {Ch.c, Ch.n, Ch.q}
     THEN [ok |-> TRUE, value |-> t[2]]
     ELSE IF t = <<Ch.five>>
          THEN [ok |-> TRUE, value |-> Ch.five]
          ELSE [ok |-> FALSE, value |-> 0]

\* BrowserMessageSchema.safeParse(parsed).success
SafeParse(value) == value \in {Ch.c, Ch.n}

\* The body of the try block without its handler: the records passed to
\* handleMessage, and whether the block ended without an exception.
TryHandle_NoCatch(text) ==
  LET parsed == JsonParse(text)
  IN [records |-> IF parsed.ok /\ SafeParse(parsed.value) THEN <<parsed.value>> ELSE <<>>,
      alive |-> parsed.ok]

\* try { JSON.parse; safeParse; continue on failure; handleMessage } catch {}:
\* the records passed to handleMessage, and whether the loop goes on.
TryHandle(text) ==
  LET parsed == JsonParse(text)
  IN [records |-> IF parsed.ok /\ SafeParse(parsed.value) THEN <<parsed.value>> ELSE <<>>,
      alive |-> TRUE]

\* buffer.readUInt32LE(0)
ReadUInt32LE(buf) == buf[1] + 256 * buf[2] + 65536 * buf[3] + 16777216 * buf[4]

\* The producer's 4-byte little-endian length prefix.
WriteUInt32LE(n) ==
  <<n % 256, (n \div 256) % 256, (n \div 65536) % 256, (n \div 16777216) % 256>>

Min(a, b) == IF a <= b THEN a ELSE b

\* Buffer.prototype.slice(from, to): indices are clamped to the buffer.
Slice(buf, from, to) == SubSeq(buf, Min(from, Len(buf)) + 1, Min(to, Len(buf)))

\* The length test with the header left out of the sum.
Incomplete_NoHeader(buf, messageLength) == Len(buf) < messageLength

\* if (buffer.length < 4 + messageLength) break
Incomplete(buf, messageLength) == Len(buf) < HEADER_BYTES + messageLength

\* The while loop of the length-prefixed decoder, run on the buffer.
RECURSIVE Drain(_, _, _)
Drain(buf, out, early) ==
  IF Len(buf) < HEADER_BYTES
  THEN [buffer |-> buf, handled |-> out, early |-> early]
  ELSE LET messageLength == ReadUInt32LE(buf)
       IN IF Incomplete(buf, messageLength)
          THEN [buffer |-> buf, handled |-> out, early |-> early]
          ELSE LET messageBytes == Slice(buf, HEADER_BYTES, HEADER_BYTES + messageLength)
                   rest == Slice(buf, HEADER_BYTES + messageLength, Len(buf))
                   r == TryHandle(messageBytes)
                   e == early \/ Len(messageBytes) < messageLength
               IN IF r.alive
                  THEN Drain(rest, out \o r.records, e)
                  ELSE [buffer |-> rest, handled |-> out \o r.records, early |-> e]

\* process.stdin.on('data') of the length-prefixed host: the next k bytes
\* arrive as one chunk.
Chunk(k) ==
  /\ k \in 1..Len(pending)
  /\ LET d == Drain(buffer \o SubSeq(pending, 1, k), handled, parsedEarly)
     IN /\ buffer' = d.buffer
        /\ handled' = d.handled
        /\ parsedEarly' = d.early
  /\ pending' = SubSeq(pending, k + 1, Len(pending))
  /\ UNCHANGED <<stream, lineBuffer, linePending, lineHandled>>
  /\ UNCHANGED <<fsVars, envVars, inputVars, hostVars, activeLocks, tasks,
                 running, inData, expectedActive, pureVars>>

\* String.prototype.split('\n')
RECURSIVE Split(_)
Split(text) ==
  IF \E i \in 1..Len(text) : text[i] = Ch.newline
  THEN LET i == CHOOSE i \in 1..Len(text) :
                  /\ text[i] = Ch.newline
                  /\ \A j \in 1..(i - 1) : text[j] # Ch.newline
       IN <<SubSeq(text, 1, i - 1)>> \o Split(SubSeq(text, i + 1, Len(text)))
  ELSE <<text>>

\* for (const line of lines) { if (line.trim()) { try {...} catch {} } }
RECURSIVE HandleLines(_, _)
HandleLines(lines, out) ==
  IF lines = <<>> THEN out
  ELSE LET line == Head(lines)
       IN IF Trim(line) = <<>>
          THEN HandleLines(Tail(lines), out)
          ELSE LET r == TryHandle(line)
               IN IF r.alive THEN HandleLines(Tail(lines), out \o r.records)
                  ELSE out \o r.records

\* process.stdin.on('data') of the newline-delimited host; it is fed after
\* the length-prefixed one has read its stream.
LineChunk(k) ==
  /\ pending = <<>>
  /\ k \in 1..Len(linePending)
  /\ LET lines == Split(lineBuffer \o SubSeq(linePending, 1, k))
     IN /\ lineBuffer' = lines[Len(lines)]
        /\ lineHandled' = HandleLines(SubSeq(lines, 1, Len(lines) - 1), lineHandled)
  /\ linePending' = SubSeq(linePending, k + 1, Len(linePending))
  /\ UNCHANGED <<buffer, pending, handled, stream, parsedEarly>>
  /\ UNCHANGED <<fsVars, envVars, inputVars, hostVars, activeLocks, tasks,
                 running, inData, expectedActive, pureVars>>

\* The byte stream the extension sends for a sequence of record texts.
RECURSIVE FrameBytes(_)
FrameBytes(bodies) ==
  IF bodies = <<>> THEN <<>>
  ELSE WriteUInt32LE(Len(Head(bodies))) \o Head(bodies) \o FrameBytes(Tail(bodies))

\* The same records, one per line.
RECURSIVE LineBytes(_)
LineBytes(bodies) ==
  IF bodies = <<>> THEN <<>>
  ELSE Head(bodies) \o <<Ch.newline>> \o LineBytes(Tail(bodies))

BodySeqs == UNION {[1..n -> Bodies] : n \in 0..MaxFrames}

DecoderNext ==
  \/ \E k \in 1..(MaxFrames * (HEADER_BYTES + 3)) : Chunk(k)
  \/ \E k \in 1..(MaxFrames * (HEADER_BYTES + 3)) : LineChunk(k)

DecoderInit ==
  /\ RegistryEmpty
  /\ PureIdle
  /\ keepDays = 1
  /\ lockFile = [l \in LockNames |-> NoLockFile]
  /\ host = [p \in Procs |-> NewHost(0)]
  /\ script = [p \in Procs |-> <<>>]
  /\ stream \in BodySeqs
  /\ pending = FrameBytes(stream)
  /\ linePending = LineBytes(stream)
  /\ buffer = <<>> /\ handled = <<>> /\ parsedEarly = FALSE
  /\ lineBuffer = <<>> /\ lineHandled = <<>>

SpecDecoder == DecoderInit /\ [][DecoderNext]_vars

-----------------------------------------------------------------------------
(* redactSecrets: the pattern list of redact-secrets.ts applied in order *)

\* A text is a sequence of tokens; each token is a piece of the text that the
\* patterns treat uniformly.  Over this alphabet only two of the patterns can
\* match: the generic key/value pattern and the shell export pattern.  The
\* others need a digit, "://", "-----BEGIN", a header name or a vendor prefix
\* (AKIA, ghp_, sk-, eyJ, Bearer, Cookie:, ...) that no token sequence spells.
Tokens == {"export", " ", "API_KEY", "=", "\"", "abcdefgh", ";", "[REDACTED]"}

\* JSON.stringify adds braces and colons around what it serializes.
JsonTokens == {"{", "}", ":"}

TokLen(t) ==
  CASE t = "export" -> 6
    [] t = " " -> 1
    [] t = "API_KEY" -> 7
    [] t = "=" -> 1
    [] t = "\"" -> 1
    [] t = "abcdefgh" -> 8
    [] t = ";" -> 1
    [] t = "[REDACTED]" -> 10
    [] t \in JsonTokens -> 1

\* {16,} of the generic pattern and {8,} of the export pattern.
GENERIC_MIN_VALUE == 16
EXPORT_MIN_VALUE == 8

\* [a-zA-Z0-9_-], which here is also \w: the tokens a key is made of.
KeyChars == {"export", "API_KEY", "abcdefgh"}
\* [a-zA-Z0-9_\-./+=]
GenericValueChars == {"export", "API_KEY", "abcdefgh", "="}
\* [A-Z_] under the i flag
VarChars == {"export", "API_KEY", "abcdefgh"}
\* [^\s'"]
ExportValueChars == (Tokens \cup JsonTokens) \ {" ", "\""}
\* The tokens that spell one of the keywords (api_key / KEY).
Keywords == {"API_KEY"}

TokAt(text, i) == IF i <= Len(text) THEN text[i] ELSE ""

RECURSIVE SkipWhile(_, _, _)
SkipWhile(text, i, class) ==
  IF i <= Len(text) /\ text[i] \in class THEN SkipWhile(text, i + 1, class)
  ELSE i

RECURSIVE Chars(_, _, _)
Chars(text, i, j) ==
  IF i >= j THEN 0 ELSE TokLen(text[i]) + Chars(text, i + 1, j)

OptQuote(text, i) == IF TokAt(text, i) = "\"" THEN i + 1 ELSE i

NoMatch == [end |-> 0, out |-> <<>>]

\* /\b([\w-]*(?:api[_-]?key|...)[\w-]*)\s*[=:]\s*['"]?([\w\-./+=]{16,})['"]?/gi
\* tried at position i; the replacement is `${key}=[REDACTED]`.
GenericMatch(text, i) ==
  LET k == SkipWhile(text, i, KeyChars)
      a == SkipWhile(text, k, {" "})
      b == SkipWhile(text, a + 1, {" "})
      c == OptQuote(text, b)
      d == SkipWhile(text, c, GenericValueChars)
  IN  IF /\ (i = 1 \/ text[i - 1] \notin KeyChars)
         /\ \E x \in i..(k - 1) : text[x] \in Keywords
         /\ TokAt(text, a) \in {"=", ":"}
         /\ Chars(text, c, d) >= GENERIC_MIN_VALUE
      THEN [end |-> OptQuote(text, d),
            out |-> SubSeq(text, i, k - 1) \o <<"=", "[REDACTED]">>]
      ELSE NoMatch

\* /export\s+([A-Z_]*(?:KEY|...)[A-Z_]*)\s*=\s*['"]?([^\s'"]{8,})['"]?/gi
\* tried at position i; the replacement is `export ${varName}=[REDACTED]`.
ExportMatch(text, i) ==
  LET s == SkipWhile(text, i + 1, {" "})
      k == SkipWhile(text, s, VarChars)
      a == SkipWhile(text, k, {" "})
      b == SkipWhile(text, a + 1, {" "})
      c == OptQuote(text, b)
      d == SkipWhile(text, c, ExportValueChars)
  IN  IF /\ text[i] = "export"
         /\ s > i + 1
         /\ \E x \in s..(k - 1) : text[x] \in Keywords
         /\ TokAt(text, a) = "="
         /\ Chars(text, c, d) >= EXPORT_MIN_VALUE
      THEN [end |-> OptQuote(text, d),
            out |-> <<"export", " ">> \o SubSeq(text, s, k - 1)
                      \o <<"=", "[REDACTED]">>]
      ELSE NoMatch

\* String.prototype.replace with a g-flag pattern: leftmost matches, scanned
\* once from left to right, the replacement text itself is not rescanned.
RECURSIVE ReplaceGeneric(_, _)
ReplaceGeneric(text, i) ==
  IF i > Len(text) THEN <<>>
  ELSE LET m == GenericMatch(text, i)
       IN  IF m.end > 0 THEN m.out \o ReplaceGeneric(text, m.end)
           ELSE <<text[i]>> \o ReplaceGeneric(text, i + 1)

RECURSIVE ReplaceExport(_, _)
ReplaceExport(text, i) ==
  IF i > Len(text) THEN <<>>
  ELSE LET m == ExportMatch(text, i)
       IN  IF m.end > 0 THEN m.out \o ReplaceExport(text, m.end)
           ELSE <<text[i]>> \o ReplaceExport(text, i + 1)

\* The generic pattern is first in SECRET_PATTERNS, the export pattern later.
RedactSecrets(text) == ReplaceExport(ReplaceGeneric(text, 1), 1)

\* Texts: an optional assignment head followed by up to MaxTail tokens.
MaxTail == 3
MaxPasses == 2

Heads == {<<>>, <<"API_KEY", "=">>, <<"export", " ", "API_KEY", "=">>,
          <<"export", " ", "API_KEY", " ", "=", " ">>}

Tails == UNION {[1..n -> Tokens] : n \in 0..MaxTail}

Texts == {h \o t : h \in Heads, t \in Tails}

\* One more pass of redactSecrets over the result of the previous pass.
Redact ==
  /\ Len(redactions) <= MaxPasses
  /\ redactions' = Append(redactions, RedactSecrets(redactions[Len(redactions)]))
  /\ UNCHANGED <<envVars, fsVars, hostVars, inputVars, activeLocks, tasks,
                 running, inData, expectedActive, decoderVars, written, reader,
                 registryFile, accepted>>

\* No host runs: the registry is empty and every process is dormant.
Dormant ==
  /\ RegistryEmpty
  /\ DecoderIdle
  /\ keepDays = 1
  /\ lockFile = [l \in LockNames |-> NoLockFile]
  /\ host = [p \in Procs |-> NewHost(0)]
  /\ script = [p \in Procs |-> <<>>]

RedactInit ==
  /\ Dormant
  /\ written = <<>>
  /\ reader = ReaderIdle
  /\ registryFile = NoCallers /\ accepted = NoneAccepted
  /\ \E x \in Texts : redactions = <<x>>

SpecRedact == RedactInit /\ [][Redact]_vars

-----------------------------------------------------------------------------
(* Log Writers: what logConsole, logNetwork, logError, the wrapper's data *)
(* handlers and registerBrowserSession put into the text they write       *)

MaxWrites == 2

\* Free-text payloads of a record: absent, a plain text, a text with a secret.
Plain == <<"abcdefgh">>
Secret == <<"API_KEY", "=", "abcdefgh", "abcdefgh">>
Payloads == {<<>>, Plain, Secret}

\* message.text || 'Unknown error'
UNKNOWN_ERROR == <<"abcdefgh", " ", "abcdefgh">>

\* message.headers: absent, or a record with one header.
NoHeaders == <<"none">>

\* JSON.stringify(value, null, 2) of a string (the payloads hold nothing to
\* escape) and of a record with one header; " " stands for the indentation.
StringifyString(v) == <<"\"">> \o v \o <<"\"">>
StringifyHeaders(v) ==
  <<"{", " ", "\"", "abcdefgh", "\"", ":", " ", "\"">> \o v \o <<"\"", " ", "}">>

\* stripAnsi(output): the colour codes are dropped, the rest is kept.
ANSI == "ESC[0m"
StripAnsi(output) == SelectSeq(output, LAMBDA t : t # ANSI)
Outputs == Payloads \cup {<<ANSI>> \o v \o <<ANSI>> : v \in Payloads}

\* One free-text part of a written entry: the payload and what was written.
Part(payload, out) == [payload |-> payload, out |-> out]
Optional(present, part) == IF present THEN <<part>> ELSE <<>>

LogConsole(message) ==
  <<Part(message.text, RedactSecrets(message.text))>>
    \o Optional(message.url # <<>>, Part(message.url, message.url))
    \o Optional(message.stackTrace # <<>>,
                Part(StringifyString(message.stackTrace),
                     StringifyString(message.stackTrace)))

LogNetwork(message) ==
  <<Part(message.url, message.url)>>
    \o Optional(message.headers # NoHeaders,
                Part(StringifyHeaders(message.headers),
                     RedactSecrets(StringifyHeaders(message.headers))))
    \o Optional(message.requestBody # <<>>,
                Part(message.requestBody, RedactSecrets(message.requestBody)))
    \o Optional(message.responseBody # <<>>,
                Part(message.responseBody, RedactSecrets(message.responseBody)))

LogError(message) ==
  LET text == IF message.text # <<>> THEN message.text ELSE UNKNOWN_ERROR
  IN  <<Part(text, RedactSecrets(text))>>
        \o Optional(message.url # <<>>, Part(message.url, message.url))
        \o Optional(message.stackTrace # <<>>,
                    Part(StringifyString(message.stackTrace),
                         StringifyString(message.stackTrace)))

\* child.stdout / child.stderr 'data': logStream.write(stripAnsi(output))
WrapperData(output) == <<Part(StripAnsi(output), StripAnsi(output))>>

\* registerBrowserSession: the [URL: ...] part of the master-index line.
RegisterUrl(url) == Optional(url # <<>>, Part(url, url))

\* logStream.write(logEntry) / writeFile(masterPath, content + entry)
AppendWritten(writer, parts) ==
  Append(written, [writer |-> writer, parts |-> parts])

writerFrame == <<envVars, fsVars, hostVars, inputVars, activeLocks, tasks,
                 running, inData, expectedActive, decoderVars, redactions, reader,
                 registryFile, accepted>>

WriteConsole ==
  /\ Len(written) < MaxWrites
  /\ \E t \in Payloads, u \in Payloads, s \in Payloads :
       written' = AppendWritten("logConsole",
                    LogConsole([text |-> t, url |-> u, stackTrace |-> s]))
  /\ UNCHANGED writerFrame

WriteNetwork ==
  /\ Len(written) < MaxWrites
  /\ \E u \in Payloads, h \in Payloads \cup {NoHeaders},
        q \in Payloads, r \in Payloads :
       written' = AppendWritten("logNetwork",
                    LogNetwork([url |-> u, headers |-> h,
                                requestBody |-> q, responseBody |-> r]))
  /\ UNCHANGED writerFrame

WriteError ==
  /\ Len(written) < MaxWrites
  /\ \E t \in Payloads, u \in Payloads, s \in Payloads :
       written' = AppendWritten("logError",
                    LogError([text |-> t, url |-> u, stackTrace |-> s]))
  /\ UNCHANGED writerFrame

WriteOutput ==
  /\ Len(written) < MaxWrites
  /\ \E o \in Outputs : written' = AppendWritten("wrapper", WrapperData(o))
  /\ UNCHANGED writerFrame

WriteRegistry ==
  /\ Len(written) < MaxWrites
  /\ \E u \in Payloads :
       written' = AppendWritten("registerBrowserSession", RegisterUrl(u))
  /\ UNCHANGED writerFrame

WriterNext ==
  \/ WriteConsole
  \/ WriteNetwork
  \/ WriteError
  \/ WriteOutput
  \/ WriteRegistry

WriterInit == Dormant /\ PureIdle

SpecWriter == WriterInit /\ [][WriterNext]_vars

-----------------------------------------------------------------------------
(* Sweeper: cleanupStaleBrowserSessions, called by start() of a new host *)

\* maxAgeMinutes = keepDays * 24 * 60
MINUTES_PER_DAY == 1440
\* maxAgeMs = maxAgeMinutes * 60 * 1000
MS_PER_MINUTE == 60000

MaxAgeMs == keepDays * MINUTES_PER_DAY * MS_PER_MINUTE

\* age > maxAgeMs, the age counted from the startTime of the table's entry.
StaleSession(e) == now - e.startTime > MaxAgeMs

\* Object.keys(active): the ids in the order of the table's file.
RECURSIVE Orders(_)
Orders(S) ==
  IF S = {} THEN {<<>>}
  ELSE UNION {{<<x>> \o q : q \in Orders(S \ {x})} : x \in S}

\* cleanupStaleBrowserSessions up to its loop: return 0 when there is no
\* table, otherwise read it and filter the stale ids.
SweepRead(p) ==
  /\ sweep[p].pc = "start"
  /\ LET stale == IF activeTable.exists
                  THEN Keys({e \in activeTable.data : StaleSession(e)})
                  ELSE {}
     IN \E q \in Orders(stale) :
          sweep' = [sweep EXCEPT ![p] = [pc |-> IF stale = {} THEN "done" ELSE "loop",
                                         stale |-> q, found |-> stale]]
  /\ UNCHANGED <<now, ticks, keepDays, fsVars, hostVars, inputVars, activeLocks,
                 tasks, running, inData, expectedActive, decoderVars, pureVars>>

\* One iteration of the loop: markBrowserSessionCompleted(sessionId, true) is
\* called and not awaited; it runs up to its first await, then the loop goes on.
SweepCall(p) ==
  /\ sweep[p].pc = "loop"
  /\ running[p] = 0
  /\ HasFreeSlot(p)
  /\ LET sid == Head(sweep[p].stale)
         rest == Tail(sweep[p].stale)
     IN /\ tasks' = [tasks EXCEPT ![p][FreeSlot(p)] =
                       [IdleTask EXCEPT !.pc = "acq_check", !.op = "sweep",
                                        !.stage = "markCompleted", !.sid = sid,
                                        !.t0 = now]]
        /\ running' = [running EXCEPT ![p] = FreeSlot(p)]
        /\ sweep' = [sweep EXCEPT ![p] = [@ EXCEPT !.stale = rest,
                                            !.pc = IF rest = <<>> THEN "done" ELSE "loop"]]
  /\ UNCHANGED <<now, ticks, keepDays, fsVars, hostVars, inputVars, activeLocks,
                 inData, expectedActive, decoderVars, pureVars>>

\* A call of markBrowserSessionCompleted made by the sweep has not returned.
Sweeping(p) ==
  \/ sweep[p].pc # "done"
  \/ \E t \in Slots : tasks[p][t].op = "sweep"

\* Time passes beyond the staleness window.
WindowPasses ==
  /\ ticks < MaxTicks
  /\ \A p \in Procs : running[p] = 0
  /\ now' = now + MaxAgeMs + 1
  /\ ticks' = ticks + 1
  /\ UNCHANGED <<keepDays, sweep, fsVars, hostVars, activeLocks, tasks, running,
                 inData, inputVars, expectedActive, decoderVars, pureVars>>

\* A session left in the ActiveTable by a host that was killed a second ago.
Zombie == <<0 - 1, 1>>
ZombieStart == 0 - 1000

\* h1 is a running host whose page connection starts a session, logs and
\* ends; h2 is a host that starts (and sweeps) at any moment of h1's run.
SweepScript == <<{"session-start"}, {"console"}, {"session-end"}>>

\* No sentinel gets older than STALE_LOCK_MS in these runs: a lock wait that
\* times out finds a young sentinel or none.
SweepNext ==
  \/ CoreNext
  \/ \E p \in Procs, t \in Slots : AcqStale(p, t) \/ PqLoop(p, t)
  \/ \E p \in Procs : SweepRead(p) \/ SweepCall(p)
  \/ WindowPasses

SweepInit ==
  /\ PureIdle
  /\ DecoderIdle
  /\ now = 0 /\ ticks = 0
  /\ keepDays \in {0, 1}
  /\ lockFile = [l \in LockNames |-> NoLockFile]
  /\ \E left \in {{}, {Zombie}} :
       /\ masterIndex = [exists |-> left # {},
                         data |-> IF left = {} THEN <<>> ELSE <<Entry("h2", Zombie)>>]
       /\ activeTable = [exists |-> left # {},
                         data |-> {[sessionId |-> s, projectDir |-> ProjectOf("h2"),
                                    startTime |-> ZombieStart] : s \in left}]
       /\ activeDir = left
       /\ logLines = [s \in left |-> <<>>]
       /\ mtime = [s \in left |-> ZombieStart]
       /\ expectedActive = left
  /\ inactiveDir = {}
  /\ activeLocks = [p \in Procs |-> {}]
  /\ tasks = [p \in Procs |-> [t \in Slots |-> IdleTask]]
  /\ running = [p \in Procs |-> 0]
  /\ inData = [p \in Procs |-> FALSE]
  /\ closed = [p \in Procs |-> FALSE]
  /\ signalled = [p \in Procs |-> FALSE]
  /\ pendingError = [p \in Procs |-> FALSE]
  /\ delivered = [p \in Procs |-> 0]
  /\ usedRand = {}
  /\ generated = [p \in Procs |-> 0]
  /\ dropped = [p \in Procs |-> {}]
  /\ host = [p \in Procs |-> NewHost(0)]
  /\ script = [p \in Procs |-> IF p = "h1" THEN SweepScript ELSE <<>>]
  /\ sweep = [p \in Procs |-> IF p = "h2"
                              THEN [pc |-> "start", stale |-> <<>>, found |-> {}]
                              ELSE Swept]

SpecSweep == SweepInit /\ [][SweepNext]_vars

-----------------------------------------------------------------------------
(* Log Reader/Aggregator: readRecentLogs and readRecentBrowserLogs as the  *)
(* view_logs and view_browser_logs tools call them                         *)

MaxBudget == 3
MaxPieces == 2
DEFAULT_LINES == 100
MAX_FILES == 10

\* The sessions the ActiveTable lists, in the order it lists them.
ProjectSessions == 1..3
\* Project directories: the one the tools run in (process.cwd()) and another.
Projects == {"P", "Q"}
\* The projectDir of an id that the ActiveTable does not list.
Unlisted == "none"
\* The legacy single log file is entered under this number.
LegacyLog == 0
\* A line with text, and a line that is empty once trimmed.
LineTexts == {"x", ""}
\* What content.split('\n') yields: at least one piece.
Contents == UNION {[1..n -> LineTexts] : n \in 1..MaxPieces}
\* statSync(...).mtime.getTime() of the files that exist.
Mtimes == 1..3
MissingFile == [mtime |-> 0, pieces |-> <<"">>]
LogFiles == {MissingFile} \cup [mtime : Mtimes, pieces : Contents]
\* The legacy log is never compared by age: one modification time is enough.
LegacyFiles == {f \in LogFiles : f.mtime <= 1}

\* const lines = (args?.lines as number) || 100
ToolLines(arg) == IF arg = 0 THEN DEFAULT_LINES ELSE arg

\* array.slice(-k) takes the last k elements; -0 is 0 and slices from the start.
SliceLast_Head(s, k) ==
  IF k = 0 THEN s ELSE SubSeq(s, 1, IF k < Len(s) THEN k ELSE Len(s))
SliceLast(s, k) ==
  IF k = 0 THEN s ELSE SubSeq(s, (IF k < Len(s) THEN Len(s) - k ELSE 0) + 1, Len(s))

\* The pieces of a file as output lines that remember where they came from.
Pieces(sid, file) ==
  [i \in 1..Len(file.pieces) |-> [kind |-> "line", sid |-> sid, idx |-> i]]

\* content.split('\n').filter(line => line.trim().length > 0)
FilteredLines(sid, file) ==
  LET HasText(l) == file.pieces[l.idx] # "" IN SelectSeq(Pieces(sid, file), HasText)

\* getActiveSessions(projectDir) / getActiveBrowserSessions(projectDir):
\* Object.keys(active).filter(id => active[id].projectDir === projectDir)
GetActiveSessions(projectDir, active) ==
  {s \in ProjectSessions : active[s] = projectDir}

\* JSON.parse(content) throws on a file read while a writeFileSync of another
\* process has truncated it and not yet written all of the new text.
ParseThrows(d) == d.table = "partial"

\* .filter(f => f.mtime > 0).sort((a, b) => b.mtime - a.mtime): the sort is
\* stable, files of equal mtime keep the registry's order.
SortedFiles(sessionIds, files) ==
  LET E == {s \in sessionIds : files[s].mtime > 0}
      n == Cardinality(E)
  IN CHOOSE q \in [1..n -> E] :
       \A i, j \in 1..n :
         i < j => \/ files[q[i]].mtime > files[q[j]].mtime
                  \/ files[q[i]].mtime = files[q[j]].mtime /\ q[i] < q[j]

\* return limit ? files.slice(0, limit) : files
GetSessionLogFiles(limit, projectDir, d) ==
  LET all == SortedFiles(GetActiveSessions(projectDir, d.active), d.files)
  IN IF limit = 0 THEN all ELSE SubSeq(all, 1, IF limit < Len(all) THEN limit ELSE Len(all))

Separator(sid) == [kind |-> "separator", sid |-> sid, idx |-> 0]
Placeholder == [kind |-> "placeholder", sid |-> LegacyLog, idx |-> 0]
\* The reader does not return: the exception of JSON.parse leaves it.
Thrown == [kind |-> "error", sid |-> LegacyLog, idx |-> 0]

\* The loop over sessionFiles: each file's selection and its separator are
\* put in front of what was collected from the more recent files.
RECURSIVE Collect(_, _, _, _, _)
Collect(sessionFiles, files, i, remainingLines, allLines) ==
  IF i > Len(sessionFiles) \/ remainingLines <= 0 THEN allLines
  ELSE LET sid == sessionFiles[i]
           lines == FilteredLines(sid, files[sid])
           linesToTake == IF Len(lines) < remainingLines THEN Len(lines)
                          ELSE remainingLines
           selectedLines == SliceLast(lines, linesToTake)
       IN Collect(sessionFiles, files, i + 1, remainingLines - linesToTake,
                  <<Separator(sid)>> \o selectedLines \o allLines)

\* d is what is on disk: the ActiveTable (table, active), the session files
\* and the legacy log.
ReadRecentBrowserLogs(totalLines, maxFiles, projectDir, d) ==
  IF ParseThrows(d) THEN <<Thrown>>
  ELSE LET sessionFiles == GetSessionLogFiles(maxFiles, projectDir, d)
       IN IF Len(sessionFiles) = 0 THEN <<Placeholder>>
          ELSE Collect(sessionFiles, d.files, 1, totalLines, <<>>)

\* With no session file the legacy log, if there is one, is cut to its last
\* totalLines pieces, empty ones included.
ReadRecentLogs(totalLines, maxFiles, projectDir, d) ==
  IF ParseThrows(d) THEN <<Thrown>>
  ELSE LET sessionFiles == GetSessionLogFiles(maxFiles, projectDir, d)
       IN IF Len(sessionFiles) = 0
          THEN IF d.legacy.mtime > 0
               THEN SliceLast(Pieces(LegacyLog, d.legacy), totalLines)
               ELSE <<Placeholder>>
          ELSE Collect(sessionFiles, d.files, 1, totalLines, <<>>)

readerFrame == <<envVars, fsVars, hostVars, inputVars, activeLocks, tasks,
                 running, inData, expectedActive, decoderVars, redactions, written,
                 registryFile, accepted>>

\* existsSync(LOG_FILE) and readFileSync(LOG_FILE) run only when no session
\* file was found: the legacy log is whatever is on disk at that moment.
LegacyRead ==
  IF ~ParseThrows(reader) /\ Len(GetSessionLogFiles(MAX_FILES, reader.cwd, reader)) = 0
  THEN LegacyFiles
  ELSE {reader.legacy}

\* The wrapper appends the output of every command to the one legacy log,
\* whatever directory the command ran in.
LegacyCwd(l) == IF l = reader.legacy THEN {reader.legacyCwd} ELSE Projects

\* The view_logs tool (get_recent_errors and auto_fix_errors make the same call).
ViewLogs ==
  /\ reader.called = "none"
  /\ \E arg \in 0..MaxBudget, l \in LegacyRead :
       \E c \in LegacyCwd(l) :
         reader' = [reader EXCEPT
                      !.called = "readRecentLogs",
                      !.totalLines = ToolLines(arg),
                      !.legacy = l,
                      !.legacyCwd = c,
                      !.out = ReadRecentLogs(ToolLines(arg), MAX_FILES, reader.cwd,
                                             [reader EXCEPT !.legacy = l])]
  /\ UNCHANGED readerFrame

\* The view_browser_logs tool (get_browser_errors makes the same call).
ViewBrowserLogs ==
  /\ reader.called = "none"
  /\ \E arg \in 0..MaxBudget :
       reader' = [reader EXCEPT
                    !.called = "readRecentBrowserLogs",
                    !.totalLines = ToolLines(arg),
                    !.out = ReadRecentBrowserLogs(ToolLines(arg), MAX_FILES,
                                                  reader.cwd, reader)]
  /\ UNCHANGED readerFrame

ReaderNext == ViewLogs \/ ViewBrowserLogs

ReaderInit ==
  /\ Dormant
  /\ redactions = <<>> /\ written = <<>> /\ registryFile = NoCallers
  /\ accepted = NoneAccepted
  /\ \E f \in [ProjectSessions -> LogFiles] :
       reader = [called |-> "none", totalLines |-> 0, out |-> <<>>,
                 cwd |-> "P", table |-> "whole",
                 active |-> [s \in ProjectSessions |-> "P"],
                 files |-> f, legacy |-> MissingFile, legacyCwd |-> "P"]

SpecReader == ReaderInit /\ [][ReaderNext]_vars

\* Sessions of two projects: every listed session belongs to one of the
\* projects, and the ActiveTable may be read while another process rewrites it.
ProjectInit ==
  /\ Dormant
  /\ redactions = <<>> /\ written = <<>> /\ registryFile = NoCallers
  /\ accepted = NoneAccepted
  /\ \E f \in [ProjectSessions -> LegacyFiles], a \in [ProjectSessions -> Projects],
        t \in {"whole", "partial"} :
       reader = [called |-> "none", totalLines |-> 0, out |-> <<>>,
                 cwd |-> "P", table |-> t, active |-> a,
                 files |-> f, legacy |-> MissingFile, legacyCwd |-> "P"]

SpecProject == ProjectInit /\ [][ReaderNext]_vars

\* The 'data' callback returns once the records of its chunk have been passed
\* to handleMessage: the records behind the mark arrive in a later chunk.
ChunkEnd == {"chunk-end"}

ChunkEnds(p) ==
  /\ running[p] = 0
  /\ script[p] # <<>>
  /\ Head(script[p]) = ChunkEnd
  /\ script' = [script EXCEPT ![p] = Tail(@)]
  /\ inData' = [inData EXCEPT ![p] = FALSE]
  /\ UNCHANGED <<fsVars, envVars, hostVars, activeLocks, tasks, running, closed,
                 signalled, delivered, usedRand, expectedActive, decoderVars,
                 pureVars>>

\* One page connection whose records arrive in two chunks: two records, of
\* which the first starts a session, then two more.
OrderScripts ==
  {<<{a}, {b}, ChunkEnd, {c}, {d}>> :
     a \in {"console", "session-start"}, b \in {"console", "session-start"},
     c \in {"console", "heartbeat"}, d \in {"console", "session-start"}}

OrderNext ==
  \/ \E p \in Procs, t \in Slots :
       \/ LockStep(p, t)
       \/ RegRead(p, t) \/ RegWrite(p, t) \/ MaRead(p, t) \/ MaWrite(p, t)
       \/ SsOpen(p, t) \/ HmAfter(p, t) \/ PqLoop(p, t)
  \/ \E p \in Procs, m \in MsgTypes, r \in RandVals : Deliver(p, m, r)
  \/ \E p \in Procs : ChunkEnds(p)

OrderInit ==
  /\ RegistryEmpty
  /\ PureIdle
  /\ DecoderIdle
  /\ keepDays \in {0, 1}
  /\ lockFile = [l \in LockNames |-> NoLockFile]
  /\ host = [p \in Procs |-> NewHost(0)]
  /\ \E s \in OrderScripts :
       script = [p \in Procs |-> IF p = "h1" THEN s ELSE <<>>]

SpecOrder == OrderInit /\ [][OrderNext]_vars

\* A page connection that opens and closes sessions one after the other while
\* a sentinel left by a killed process blocks one of the locks.
RecoverSessions == 7

RecoverScript ==
  [i \in 1..(2 * RecoverSessions) |->
     IF i % 2 = 1 THEN {"session-start"} ELSE {"session-end"}]

\* Time advances while a contender sleeps in the wait loop of acquireLock.
TimePasses ==
  /\ \A p \in Procs : running[p] = 0
  /\ \E p \in Procs, t \in Slots :
       tasks[p][t].wait = "timer" /\ ~TimedOut(tasks[p][t].t0)
  /\ now' = now + TICK_MS
  /\ UNCHANGED <<ticks, keepDays, sweep, fsVars, hostVars, activeLocks, tasks,
                 running, inData, inputVars, expectedActive, decoderVars, pureVars>>

\* The continuations of the host.
RecoverSteps ==
  \E p \in Procs, t \in Slots :
    LockStep(p, t) \/ StaleStep(p, t) \/ RegistryStep(p, t) \/ HostStep(p, t)

\* The page sends its next record once the previous one has been dealt with.
RecoverDeliver ==
  \E p \in Procs, m \in MsgTypes, r \in RandVals :
    (\A t \in Slots : tasks[p][t].pc = "idle") /\ Deliver(p, m, r)

RecoverNext == RecoverSteps \/ RecoverDeliver \/ TimePasses

RecoverInit ==
  /\ RegistryEmpty
  /\ PureIdle
  /\ DecoderIdle
  /\ keepDays \in {0, 1}
  /\ lockFile \in LeftLocks \ {[l \in LockNames |-> NoLockFile]}
  /\ host = [p \in Procs |-> NewHost(0)]
  /\ script = [p \in Procs |-> IF p = "h1" THEN RecoverScript ELSE <<>>]

SpecRecover == RecoverInit /\ [][RecoverNext]_vars

\* Node runs every continuation that is ready, the page keeps sending records
\* and time advances.
FairRecover ==
  /\ SpecRecover
  /\ WF_vars(RecoverSteps) /\ WF_vars(RecoverDeliver) /\ WF_vars(TimePasses)

-----------------------------------------------------------------------------
(* A finalize interrupted between its table update and its file move, and  *)
(* the sweeps of the hosts that start afterwards                           *)

\* The process is killed after markBrowserSessionCompleted has rewritten the
\* ActiveTable and released the lock, before renameSync / unlinkSync: its
\* continuations, its page connection and its memory are gone, the files stay.
KilledBeforeMove(p, t) ==
  /\ Task(p, t).pc = "mc_move"
  /\ tasks' = [tasks EXCEPT ![p] = [s \in Slots |-> IdleTask]]
  /\ running' = [running EXCEPT ![p] = 0]
  /\ inData' = [inData EXCEPT ![p] = FALSE]
  /\ activeLocks' = [activeLocks EXCEPT ![p] = {}]
  /\ host' = [host EXCEPT ![p] = NewHost(0)]
  /\ script' = [script EXCEPT ![p] = <<>>]
  /\ sweep' = [sweep EXCEPT ![p] = Swept]
  /\ UNCHANGED <<now, ticks, keepDays, fsVars, logLines, pendingError, generated,
                 dropped, mtime, closed, signalled, delivered, usedRand,
                 expectedActive, decoderVars, pureVars>>

\* The browser starts the next native host once the previous one has gone:
\* start() calls cleanupStaleBrowserSessions again.
NextHostStarts(p) ==
  /\ sweep[p].pc = "done"
  /\ script[p] = <<>>
  /\ \A t \in Slots : tasks[p][t].pc = "idle"
  /\ sweep' = [sweep EXCEPT ![p] = [pc |-> "start", stale |-> <<>>, found |-> {}]]
  /\ UNCHANGED <<now, ticks, keepDays, fsVars, hostVars, inputVars, activeLocks,
                 tasks, running, inData, expectedActive, decoderVars, pureVars>>

RepairSteps ==
  \E p \in Procs, t \in Slots :
    LockStep(p, t) \/ RegistryStep(p, t) \/ HostStep(p, t) \/ PqLoop(p, t)

RepairSweeps == \E p \in Procs : SweepRead(p) \/ SweepCall(p) \/ NextHostStarts(p)

RepairNext ==
  \/ RepairSteps
  \/ RepairSweeps
  \/ \E p \in Procs, m \in MsgTypes, r \in RandVals : Deliver(p, m, r)
  \/ \E p \in Procs, t \in Slots : KilledBeforeMove(p, t)
  \/ WindowPasses

\* Nothing is left from earlier runs: the orphan is made within the run, and
\* no wait for a lock times out.
RepairInit == SweepInit /\ activeDir = {}

SpecRepair == RepairInit /\ [][RepairNext]_vars

\* Every continuation that can run does run, and hosts keep being started.
FairRepair == SpecRepair /\ WF_vars(RepairSteps) /\ WF_vars(RepairSweeps)

-----------------------------------------------------------------------------
(* Registry writes and a kill: markSessionActive, markSessionCompleted and *)
(* getActiveSessions of session.ts, with writeFileSync as the system calls *)
(* it makes (markBrowserSessionActive writes the same way)                 *)

CrashProcs == {"w1", "w2", "mcp"}
CrashSessions == {1, 2}

crashFrame == <<envVars, fsVars, hostVars, inputVars, activeLocks, tasks,
                running, inData, expectedActive, decoderVars, redactions, written,
                reader, accepted>>

Caller(p) == registryFile.proc[p]

\* writeFileSync has truncated the file and has not written all of the text.
InWriteFileSync(p) == Caller(p).pc = "writing"

\* JSON.parse(readFileSync(activePath)): a text cut short, the empty text
\* included, is no JSON text.
JsonParseThrows == registryFile.form = "torn"

\* existsSync(activePath) ? JSON.parse(content) : {}
TableRead == IF registryFile.form = "missing" THEN {} ELSE registryFile.data

\* Calls are made one at a time, by processes that are alive.
MayCall(p) ==
  /\ Caller(p).pc = "idle"
  /\ \A q \in CrashProcs : ~InWriteFileSync(q) /\ Caller(q).pc # "opening"

Returns(p, outcome) ==
  registryFile' = [registryFile EXCEPT !.proc[p].result = outcome]

Rewrites(p, table) ==
  registryFile' = [registryFile EXCEPT !.proc[p].pc = "opening",
                                       !.proc[p].next = table]

\* markSessionActive up to its writeFileSync.
MarkSessionActive(p, s) ==
  /\ MayCall(p)
  /\ IF JsonParseThrows THEN Returns(p, "threw")
     ELSE Rewrites(p, TableRead \cup {s})
  /\ UNCHANGED crashFrame

\* markSessionCompleted up to its writeFileSync: nothing is written when
\* the file does not exist.
MarkSessionCompleted(p, s) ==
  /\ MayCall(p)
  /\ IF registryFile.form = "missing" THEN Returns(p, "returned")
     ELSE IF JsonParseThrows THEN Returns(p, "threw")
     ELSE Rewrites(p, TableRead \ {s})
  /\ UNCHANGED crashFrame

\* getActiveSessions()
GetAllActiveSessions(p) ==
  /\ MayCall(p)
  /\ IF registryFile.form # "missing" /\ JsonParseThrows THEN Returns(p, "threw")
     ELSE Returns(p, "returned")
  /\ UNCHANGED crashFrame

\* writeFileSync, first call: open(path, O_WRONLY | O_CREAT | O_TRUNC) leaves
\* the file empty.
WriteOpens(p) ==
  /\ Caller(p).pc = "opening"
  /\ registryFile' = [registryFile EXCEPT !.form = "torn", !.data = {},
                                          !.proc[p].pc = "writing"]
  /\ UNCHANGED crashFrame

\* writeFileSync, the rest: the text is written and the file closed.
WriteCompletes(p) ==
  /\ InWriteFileSync(p)
  /\ registryFile' = [registryFile EXCEPT !.form = "whole",
                                          !.data = Caller(p).next,
                                          !.proc[p].pc = "idle",
                                          !.proc[p].result = "returned"]
  /\ UNCHANGED crashFrame

\* SIGKILL, or the terminal closing, at any moment: the process is gone and
\* the file stays as it is.
ProcessKilled(p) ==
  /\ Caller(p).pc # "killed"
  /\ registryFile' = [registryFile EXCEPT !.proc[p].pc = "killed"]
  /\ UNCHANGED crashFrame

CrashNext ==
  \/ \E p \in CrashProcs, s \in CrashSessions :
       MarkSessionActive(p, s) \/ MarkSessionCompleted(p, s)
  \/ \E p \in CrashProcs :
       GetAllActiveSessions(p) \/ WriteOpens(p) \/ WriteCompletes(p) \/ ProcessKilled(p)

CrashInit ==
  /\ Dormant
  /\ redactions = <<>> /\ written = <<>> /\ reader = ReaderIdle
  /\ accepted = NoneAccepted
  /\ registryFile = [form |-> "missing", data |-> {},
                     proc |-> [p \in CrashProcs |->
                                 [pc |-> "idle", next |-> {}, result |-> "none"]]]

SpecCrash == CrashInit /\ [][CrashNext]_vars

-----------------------------------------------------------------------------
(* Rate limit: a page that sends bursts of records to one host *)

MaxPauses == 2
BurstSizes == {1, MAX_MESSAGES_PER_SECOND + 1}

\* A burst of n records that arrive in one chunk.
Burst(n) == [i \in 1..n |-> {"heartbeat"}] \o <<ChunkEnd>>

RateScripts == {Burst(a) \o Burst(b) : a, b \in BurstSizes}

\* One more record accepted at the clock value t.
CountAccepted(acc, t) ==
  IF \E e \in acc : e[1] = t
  THEN {IF e[1] = t THEN <<t, e[2] + 1>> ELSE e : e \in acc}
  ELSE acc \cup {<<t, 1>>}

\* The stdin 'data' handler passes the next record of the burst to
\* handleMessage, whose first statement is the call of checkRateLimit.
RateDeliver(p) ==
  /\ running[p] = 0
  /\ inData[p] \/ ~MicroReady(p)
  /\ script[p] # <<>>
  /\ ~closed[p]
  /\ HasFreeSlot(p)
  /\ \E m \in Head(script[p]) \ ChunkEnd :
       Apply(p, FreeSlot(p), HandleMessage(p, m, delivered[p] + 1, 1), TRUE)
  /\ accepted' = IF CheckRateLimit(host[p]).ok THEN CountAccepted(accepted, now)
                 ELSE accepted
  /\ script' = [script EXCEPT ![p] = Tail(@)]
  /\ delivered' = [delivered EXCEPT ![p] = @ + 1]
  /\ UNCHANGED <<fsVars, activeLocks, envVars, closed, signalled, usedRand,
                 expectedActive, decoderVars, redactions, written, reader,
                 registryFile>>

\* The page is silent for a while, between two bursts or before the first.
RatePause(d) ==
  /\ ticks < MaxPauses
  /\ \A p \in Procs : running[p] = 0 /\ ~inData[p]
  /\ now' = now + d
  /\ ticks' = ticks + 1
  /\ UNCHANGED <<keepDays, sweep, fsVars, hostVars, activeLocks, tasks, running,
                 inData, inputVars, expectedActive, decoderVars, pureVars>>

RateNext ==
  \/ \E p \in Procs : RateDeliver(p) \/ ChunkEnds(p)
  \/ \E d \in {1, RATE_WINDOW_MS - 1} : RatePause(d)

\* The host is constructed at time 0: rateLimitWindowStart = Date.now().
RateInit ==
  /\ RegistryEmpty
  /\ PureIdle
  /\ DecoderIdle
  /\ keepDays = 1
  /\ lockFile = [l \in LockNames |-> NoLockFile]
  /\ host = [p \in Procs |-> NewHost(0)]
  /\ \E s \in RateScripts : script = [p \in Procs |-> IF p = "h1" THEN s ELSE <<>>]

SpecRate == RateInit /\ [][RateNext]_vars

-----------------------------------------------------------------------------
(* Ingestion Decoder: a producer that sends frames longer than any record *)

\* The longest frame body a well-behaved producer sends in these runs.
MaxFrameLength == 3

\* Bodies whose declared length is above MaxFrameLength: one that is a valid
\* record once its leading white space is trimmed, one that is no JSON text.
OversizedBodies == {<<Ch.space, Ch.space, Ch.lbrace, Ch.c, Ch.rbrace>>,
                    <<Ch.five, Ch.five, Ch.five, Ch.five, Ch.five>>}

OversizeSeqs ==
  UNION {[1..n -> ValidBodies \cup OversizedBodies] : n \in 0..MaxFrames}

OversizeNext == \E k \in 1..(MaxFrames * (HEADER_BYTES + 5)) : Chunk(k)

OversizeInit ==
  /\ RegistryEmpty
  /\ PureIdle
  /\ keepDays = 1
  /\ lockFile = [l \in LockNames |-> NoLockFile]
  /\ host = [p \in Procs |-> NewHost(0)]
  /\ script = [p \in Procs |-> <<>>]
  /\ stream \in OversizeSeqs
  /\ pending = FrameBytes(stream)
  /\ linePending = <<>>
  /\ buffer = <<>> /\ handled = <<>> /\ parsedEarly = FALSE
  /\ lineBuffer = <<>> /\ lineHandled = <<>>

SpecOversize == OversizeInit /\ [][OversizeNext]_vars

-----------------------------------------------------------------------------
(* The synchronous sweeps of session.ts: cleanupStaleSessions and          *)
(* cleanupOldInactiveLogs, with file operations that may fail              *)

\* cleanupStaleSessions(maxAgeMinutes = 60), cleanupOldInactiveLogs(retentionDays = 7)
DEFAULT_MAX_AGE_MINUTES == 60
DEFAULT_RETENTION_DAYS == 7

RetentionMs == DEFAULT_RETENTION_DAYS * MINUTES_PER_DAY * MS_PER_MINUTE

\* age > maxAgeMs, the age counted from the startTime of the table's entry.
StaleEntry(e) == now - e.startTime > DEFAULT_MAX_AGE_MINUTES * MS_PER_MINUTE

\* age > maxAgeMs, the age counted from the mtime of the archived file.
ExpiredLog(s) == now - mtime[s] > RetentionMs

\* The for loop of cleanupStaleSessions: markSessionCompleted(sessionId, true)
\* rewrites the table without the id and renames the log file when it exists;
\* renameSync throws for the ids in failing, and nothing catches it.
RECURSIVE StaleLoop(_, _, _)
StaleLoop(ids, failing, st) ==
  IF ids = <<>> THEN st
  ELSE LET sid == Head(ids)
           table == DeleteEntry(st.table, sid)
       IN IF sid \notin st.active
          THEN StaleLoop(Tail(ids), failing, [st EXCEPT !.table = table])
          ELSE IF sid \in failing
               THEN [st EXCEPT !.table = table, !.threw = TRUE,
                               !.failed = @ \cup {sid}]
               ELSE StaleLoop(Tail(ids), failing,
                              [st EXCEPT !.table = table,
                                         !.active = @ \ {sid},
                                         !.inactive = @ \cup {sid}])

\* The for loop of cleanupOldInactiveLogs: statSync, then unlinkSync of an
\* expired file; unlinkSync throws for the ids in failing.
RECURSIVE OldLoop(_, _, _)
OldLoop(ids, failing, st) ==
  IF ids = <<>> THEN st
  ELSE LET sid == Head(ids)
       IN IF ~ExpiredLog(sid)
          THEN OldLoop(Tail(ids), failing, st)
          ELSE IF sid \in failing
               THEN [st EXCEPT !.threw = TRUE, !.failed = @ \cup {sid}]
               ELSE OldLoop(Tail(ids), failing, [st EXCEPT !.inactive = @ \ {sid}])

LoopStart ==
  [table |-> activeTable.data, active |-> activeDir, inactive |-> inactiveDir,
   threw |-> FALSE, failed |-> {}]

Called(p, name, found, st) ==
  sweep' = [sweep EXCEPT ![p] = [pc |-> IF st.threw THEN "threw" ELSE "returned",
                                 call |-> name, stale |-> <<>>,
                                 found |-> found, failed |-> st.failed]]

syncFrame == <<now, ticks, keepDays, lockFile, masterIndex, hostVars, inputVars,
               activeLocks, tasks, running, inData, expectedActive, decoderVars,
               pureVars>>

\* cleanupStaleSessions(), called by a process that starts.
CleanupStaleSessions(p) ==
  /\ sweep[p].pc = "start"
  /\ activeTable.exists
  /\ LET stale == Keys({e \in activeTable.data : StaleEntry(e)})
     IN \E ids \in Orders(stale), failing \in SUBSET stale :
          LET st == StaleLoop(ids, failing, LoopStart)
          IN /\ activeTable' = [activeTable EXCEPT !.data = st.table]
             /\ activeDir' = st.active
             /\ inactiveDir' = st.inactive
             /\ Called(p, "cleanupStaleSessions", stale, st)
  /\ UNCHANGED syncFrame

\* cleanupOldInactiveLogs(), called by a process that starts.
CleanupOldInactiveLogs(p) ==
  /\ sweep[p].pc = "start"
  /\ LET old == {s \in inactiveDir : ExpiredLog(s)}
     IN \E ids \in Orders(inactiveDir), failing \in SUBSET old :
          LET st == OldLoop(ids, failing, LoopStart)
          IN /\ inactiveDir' = st.inactive
             /\ Called(p, "cleanupOldInactiveLogs", old, st)
  /\ UNCHANGED <<activeTable, activeDir>>
  /\ UNCHANGED syncFrame

SyncSweepNext ==
  \E p \in Procs : CleanupStaleSessions(p) \/ CleanupOldInactiveLogs(p)

\* What the earlier runs left behind: each session is unknown, active with a
\* stale or a fresh entry, or archived with an expired or a fresh log.
SyncSessions == {<<1, 1>>, <<2, 1>>, <<3, 1>>}
SessionFates == {"none", "stale", "fresh", "expired", "kept"}

SyncSweepInit ==
  /\ PureIdle
  /\ DecoderIdle
  /\ now = RetentionMs + 1 /\ ticks = 0
  /\ keepDays = 1
  /\ lockFile = [l \in LockNames |-> NoLockFile]
  /\ masterIndex = [exists |-> FALSE, data |-> <<>>]
  /\ \E fate \in [SyncSessions -> SessionFates] :
       /\ activeTable = [exists |-> TRUE,
                         data |-> {[sessionId |-> s, projectDir |-> ProjectOf("h1"),
                                    startTime |-> IF fate[s] = "stale" THEN 0 ELSE now] :
                                   s \in {x \in SyncSessions : fate[x] \in {"stale", "fresh"}}}]
       /\ activeDir = {s \in SyncSessions : fate[s] \in {"stale", "fresh"}}
       /\ inactiveDir = {s \in SyncSessions : fate[s] \in {"expired", "kept"}}
       /\ logLines = [s \in {x \in SyncSessions : fate[x] # "none"} |-> <<>>]
       /\ mtime = [s \in {x \in SyncSessions : fate[x] # "none"} |->
                     IF fate[s] \in {"stale", "expired"} THEN 0 ELSE now]
       /\ expectedActive = {s \in SyncSessions : fate[s] \in {"stale", "fresh"}}
  /\ activeLocks = [p \in Procs |-> {}]
  /\ tasks = [p \in Procs |-> [t \in Slots |-> IdleTask]]
  /\ running = [p \in Procs |-> 0]
  /\ inData = [p \in Procs |-> FALSE]
  /\ closed = [p \in Procs |-> FALSE]
  /\ signalled = [p \in Procs |-> FALSE]
  /\ pendingError = [p \in Procs |-> FALSE]
  /\ delivered = [p \in Procs |-> 0]
  /\ usedRand = {}
  /\ generated = [p \in Procs |-> 0]
  /\ dropped = [p \in Procs |-> {}]
  /\ host = [p \in Procs |-> NewHost(0)]
  /\ script = [p \in Procs |-> <<>>]
  /\ sweep = [p \in Procs |-> [pc |-> "start", stale |-> <<>>, found |-> {}]]

SpecSyncSweep == SyncSweepInit /\ [][SyncSweepNext]_vars

-----------------------------------------------------------------------------
(* redactSecrets rule by rule: which tokens a rule wrote, and which tokens *)
(* a later rule matches                                                    *)

\* The tokens of ReplaceGeneric(text, i), each marked TRUE when the generic
\* rule wrote it as (part of) a replacement.
RECURSIVE GenericMarks(_, _)
GenericMarks(text, i) ==
  IF i > Len(text) THEN <<>>
  ELSE LET m == GenericMatch(text, i)
       IN  IF m.end > 0
           THEN [x \in 1..Len(m.out) |-> TRUE] \o GenericMarks(text, m.end)
           ELSE <<FALSE>> \o GenericMarks(text, i + 1)

\* The positions of the text that the matches of the export rule cover.
RECURSIVE ExportCovered(_, _)
ExportCovered(text, i) ==
  IF i > Len(text) THEN {}
  ELSE LET m == ExportMatch(text, i)
       IN  IF m.end > 0 THEN i..(m.end - 1) \cup ExportCovered(text, m.end)
           ELSE ExportCovered(text, i + 1)

\* Header texts: over this alphabet only the Bearer rule and the
\* Authorization header rule can match.
HeaderTokens == {"Authorization", ":", " ", "Bearer", "abc.def", "\n", "[REDACTED]"}

\* \s
WhiteSpace == {" ", "\n"}
\* [a-zA-Z0-9_\-\.=]
BearerChars == {"Authorization", "Bearer", "abc.def"}
\* [^\n]
LineChars == HeaderTokens \ {"\n"}

\* /Bearer\s+[a-zA-Z0-9_\-\.=]+/gi tried at position i; the replacement is
\* 'Bearer [REDACTED]'.
BearerMatch(text, i) ==
  LET s == SkipWhile(text, i + 1, WhiteSpace)
      d == SkipWhile(text, s, BearerChars)
  IN  IF text[i] = "Bearer" /\ s > i + 1 /\ d > s
      THEN [end |-> d, out |-> <<"Bearer", " ", "[REDACTED]">>]
      ELSE NoMatch

\* /Authorization:\s*([^\n]+)/gi tried at position i: \s* takes the white
\* space, new lines included, and gives back a blank when nothing but white
\* space follows; the replacement is 'Authorization: [REDACTED]'.
AuthorizationMatch(text, i) ==
  LET w == SkipWhile(text, i + 2, WhiteSpace)
      d == SkipWhile(text, w, LineChars)
      blanks == {c \in (i + 2)..(w - 1) : text[c] = " "}
      out == <<"Authorization", ":", " ", "[REDACTED]">>
  IN  IF text[i] # "Authorization" \/ TokAt(text, i + 1) # ":" THEN NoMatch
      ELSE IF d > w THEN [end |-> d, out |-> out]
      ELSE IF blanks # {}
           THEN [end |-> 1 + CHOOSE c \in blanks : \A b \in blanks : b <= c,
                 out |-> out]
           ELSE NoMatch

RECURSIVE ReplaceBearer(_, _)
ReplaceBearer(text, i) ==
  IF i > Len(text) THEN <<>>
  ELSE LET m == BearerMatch(text, i)
       IN  IF m.end > 0 THEN m.out \o ReplaceBearer(text, m.end)
           ELSE <<text[i]>> \o ReplaceBearer(text, i + 1)

RECURSIVE ReplaceAuthorization(_, _)
ReplaceAuthorization(text, i) ==
  IF i > Len(text) THEN <<>>
  ELSE LET m == AuthorizationMatch(text, i)
       IN  IF m.end > 0 THEN m.out \o ReplaceAuthorization(text, m.end)
           ELSE <<text[i]>> \o ReplaceAuthorization(text, i + 1)

RECURSIVE BearerMarks(_, _)
BearerMarks(text, i) ==
  IF i > Len(text) THEN <<>>
  ELSE LET m == BearerMatch(text, i)
       IN  IF m.end > 0
           THEN [x \in 1..Len(m.out) |-> TRUE] \o BearerMarks(text, m.end)
           ELSE <<FALSE>> \o BearerMarks(text, i + 1)

RECURSIVE AuthorizationCovered(_, _)
AuthorizationCovered(text, i) ==
  IF i > Len(text) THEN {}
  ELSE LET m == AuthorizationMatch(text, i)
       IN  IF m.end > 0 THEN i..(m.end - 1) \cup AuthorizationCovered(text, m.end)
           ELSE AuthorizationCovered(text, i + 1)

MaxHeader == 5
HeaderTexts == UNION {[1..n -> HeaderTokens] : n \in 0..MaxHeader}

IsHeaderText(text) == \A i \in 1..Len(text) : text[i] \in HeaderTokens

\* The text after the earlier rule of the pair that can match it.
AfterEarlier(text) ==
  IF IsHeaderText(text) THEN ReplaceBearer(text, 1) ELSE ReplaceGeneric(text, 1)

\* The text after the later rule of the pair as well: what redactSecrets returns.
AfterLater(text) ==
  IF IsHeaderText(text) THEN ReplaceAuthorization(AfterEarlier(text), 1)
  ELSE ReplaceExport(AfterEarlier(text), 1)

\* The for loop of redactSecrets, as far as the two rules of the pair.
RedactByRules ==
  /\ Len(redactions) = 1
  /\ redactions' = <<redactions[1], AfterEarlier(redactions[1]),
                     AfterLater(redactions[1])>>
  /\ UNCHANGED <<envVars, fsVars, hostVars, inputVars, activeLocks, tasks,
                 running, inData, expectedActive, decoderVars, written, reader,
                 registryFile, accepted>>

CascadeInit ==
  /\ Dormant
  /\ written = <<>>
  /\ reader = ReaderIdle
  /\ registryFile = NoCallers /\ accepted = NoneAccepted
  /\ \E x \in Texts \cup HeaderTexts : redactions = <<x>>

SpecCascade == CascadeInit /\ [][RedactByRules]_vars

\* Two hosts, sibling processes, start while the sentinel of a process killed
\* more than STALE_LOCK_MS ago blocks the active-sessions lock; the page of
\* the second one closes at once.
StaleScript(p) ==
  IF p = "h1" THEN <<{"session-start"}>> ELSE <<{"session-start"}, {"session-end"}>>

StaleNext ==
  \/ \E p \in Procs, t \in Slots :
       LockStep(p, t) \/ StaleStep(p, t) \/ RegistryStep(p, t) \/ HostStep(p, t)
  \/ \E p \in Procs, m \in MsgTypes, r \in RandVals : Deliver(p, m, r)
  \/ Tick

StaleInit ==
  /\ RegistryEmpty
  /\ PureIdle
  /\ DecoderIdle
  /\ keepDays = 1
  /\ lockFile = [l \in LockNames |->
                   IF l = "active-sessions"
                   THEN [exists |-> TRUE, pid |-> "killed", mtime |-> 0 - STALE_LOCK_MS]
                   ELSE NoLockFile]
  /\ host = [p \in Procs |-> NewHost(0)]
  /\ script = [p \in Procs |-> StaleScript(p)]

SpecStale == StaleInit /\ [][StaleNext]_vars

\* The statements between try { and } finally { of the three registry
\* functions: existsSync, readFileSync, JSON.parse, writeFileSync.
TryBlock == {"reg_read", "reg_write", "ma_read", "ma_write", "mc_read", "mc_write"}

\* The registry function has no finally block.
FinallyReleased_NoFinally(held, l) == held

\* finally { releaseLock(lockName) }: activeLocks.delete(lockName)
FinallyReleased(held, l) == held \ {l}

\* The rejected promise of a registry function reaches its caller one
\* microtask later: the catch block of startSession, or the catch and finally
\* blocks of endSession.
Rejected(tk) ==
  IF tk.stage = "markCompleted"
  THEN AfterRegistry(tk)
  ELSE [tk EXCEPT !.pc = "ss_catch", !.wait = "micro", !.t0 = NotStarted,
                  !.content = <<>>, !.active = {}]

\* A statement of the try block throws (the registry file cannot be read,
\* parsed or written): the finally block calls releaseLock and the error
\* leaves the function.
SectionThrows(p, t) ==
  /\ CanStep(p, t)
  /\ Task(p, t).pc \in TryBlock
  /\ Task(p, t).op # "sweep"
  /\ LET tk == Task(p, t)
         l == LockOf(tk.stage)
     IN /\ activeLocks' = [activeLocks EXCEPT ![p] = FinallyReleased(@, l)]
        /\ lockFile' = [lockFile EXCEPT ![l] = NoLockFile]
        /\ TaskStep(p, t, Rejected(tk), FALSE)
  /\ UNCHANGED <<masterIndex, activeTable, activeDir, inactiveDir, envVars,
                 inputVars, expectedActive, decoderVars, pureVars, hostVars>>

\* startSession: catch (err) { this.sessionId = null; this.logStream = null }
\* finally { this.isStartingSession = false }
SsCatch(p, t) ==
  /\ CanStep(p, t)
  /\ Task(p, t).pc = "ss_catch"
  /\ LET e == St(p, [host[p] EXCEPT !.sessionId = NoSid, !.logStream = NoStream,
                                    !.isStartingSession = FALSE])
     IN Apply(p, t, [e EXCEPT !.tk = Micro(Task(p, t), "hm_after")], FALSE)
  /\ UNCHANGED <<fsVars, activeLocks, envVars, inputVars, expectedActive,
                 decoderVars, pureVars>>

\* Two hosts, sibling processes: one page opens and closes, the other opens;
\* any statement that reads or writes a registry file may throw.
ReleaseScript(p) ==
  IF p = "h1" THEN <<{"session-start"}, {"session-end"}>> ELSE <<{"session-start"}>>

ReleaseNext ==
  \/ CoreNext
  \/ \E p \in Procs, t \in Slots : SectionThrows(p, t) \/ SsCatch(p, t)

ReleaseInit ==
  /\ RegistryEmpty
  /\ PureIdle
  /\ DecoderIdle
  /\ keepDays = 1
  /\ lockFile = [l \in LockNames |-> NoLockFile]
  /\ host = [p \in Procs |-> NewHost(0)]
  /\ script = [p \in Procs |-> ReleaseScript(p)]

SpecRelease == ReleaseInit /\ [][ReleaseNext]_vars

\* readFileSync(file) of a listed file that is no longer in the directory
\* throws ENOENT, and nothing in the reader catches it; otherwise the loop is
\* that of Collect.
RECURSIVE ReadListed(_, _, _, _, _)
ReadListed(sessionFiles, files, i, remainingLines, allLines) ==
  IF i > Len(sessionFiles) \/ remainingLines <= 0 THEN allLines
  ELSE LET sid == sessionFiles[i]
           lines == FilteredLines(sid, files[sid])
           linesToTake == IF Len(lines) < remainingLines THEN Len(lines)
                          ELSE remainingLines
           selectedLines == SliceLast(lines, linesToTake)
       IN IF files[sid].mtime = 0 THEN <<Thrown>>
          ELSE ReadListed(sessionFiles, files, i + 1, remainingLines - linesToTake,
                          <<Separator(sid)>> \o selectedLines \o allLines)

\* readRecentBrowserLogs up to the return of getBrowserSessionLogFiles: the
\* ActiveTable is read and the files of the project's sessions are listed.
ListSessionFiles ==
  /\ reader.called = "none"
  /\ \E arg \in 0..MaxBudget :
       reader' = [reader EXCEPT
                    !.called = "getBrowserSessionLogFiles",
                    !.totalLines = ToolLines(arg),
                    !.listed = GetSessionLogFiles(MAX_FILES, reader.cwd, reader)]
  /\ UNCHANGED readerFrame

\* markBrowserSessionCompleted in a host process, for a session whose log is
\* in the active directory: the entry leaves the ActiveTable and renameSync
\* (or unlinkSync) takes the file out of the directory.
FinalizedElsewhere(s) ==
  /\ reader.called # "readRecentBrowserLogs"
  /\ reader.files[s].mtime > 0
  /\ reader' = [reader EXCEPT !.active = [@ EXCEPT ![s] = Unlisted],
                              !.files = [@ EXCEPT ![s] = MissingFile]]
  /\ UNCHANGED readerFrame

\* The rest of readRecentBrowserLogs: the placeholder, or the loop over the
\* listed files as they are on disk now.
ReadSessionFiles ==
  /\ reader.called = "getBrowserSessionLogFiles"
  /\ reader' = [reader EXCEPT
                  !.called = "readRecentBrowserLogs",
                  !.out = IF Len(reader.listed) = 0 THEN <<Placeholder>>
                          ELSE ReadListed(reader.listed, reader.files, 1,
                                          reader.totalLines, <<>>)]
  /\ UNCHANGED readerFrame

ConcurrentNext ==
  \/ ListSessionFiles
  \/ \E s \in ProjectSessions : FinalizedElsewhere(s)
  \/ ReadSessionFiles

\* Three sessions of the project are in the ActiveTable; each has its log in
\* the active directory or has none.
ConcurrentInit ==
  /\ Dormant
  /\ redactions = <<>> /\ written = <<>> /\ registryFile = NoCallers
  /\ accepted = NoneAccepted
  /\ \E f \in [ProjectSessions -> LogFiles] :
       reader = [called |-> "none", totalLines |-> 0, out |-> <<>>,
                 cwd |-> "P", table |-> "whole",
                 active |-> [s \in ProjectSessions |-> "P"],
                 files |-> f, legacy |-> MissingFile, legacyCwd |-> "P",
                 listed |-> <<>>]

SpecConcurrent == ConcurrentInit /\ [][ConcurrentNext]_vars

----------------------------------------------------------------------------
(* Properties of the Mutex Coordinator and the Session Registry *)

Holders(l) == {pt \in Procs \X Slots : HoldsLock(pt[1], pt[2], l)}

\* C1: for every named lock, at most one caller at a time is between an
\* acquireLock that returned true and its releaseLock.
C1_MutualExclusion == \A l \in LockNames : Cardinality(Holders(l)) <= 1

\* C2: no update of the ActiveTable is lost: the table holds exactly the
\* session ids that were marked active and not marked completed since.
C2_NoLostUpdate ==
  activeTable.exists => Keys(activeTable.data) = expectedActive

IsPrefix(a, b) == Len(a) <= Len(b) /\ \A i \in 1..Len(a) : a[i] = b[i]

\* C3: the master index is append-only: every step leaves its earlier content
\* as a prefix of its later content.
C3_AppendOnly ==
  [][masterIndex.exists => IsPrefix(masterIndex.data, masterIndex'.data)]_vars

Registered == {masterIndex.data[i].sessionId : i \in 1..Len(masterIndex.data)}

\* A session its host holds and has not begun to end.
Live(sid) ==
  \E p \in Procs :
    /\ host[p].sessionId = sid
    /\ ~\E t \in Slots : tasks[p][t].op = "end"

\* C4: the log file of a registered session is never in both directories, and
\* while the session is live it is in one of them.
C4_LocationInvariant ==
  \A sid \in Registered :
    /\ ~(sid \in activeDir /\ sid \in inactiveDir)
    /\ Live(sid) => (sid \in activeDir \/ sid \in inactiveDir)

\* C5: every session id in the ActiveTable has a log file in the active
\* directory.
C5_ActiveHasFile ==
  \A sid \in Keys(activeTable.data) : sid \in activeDir

----------------------------------------------------------------------------
(* Properties of the host *)

\* C6: between two consecutive finalizations a host generates at most one
\* session id, whatever records arrive while startSession is suspended.
C6_NoDuplicateSession == \A p \in Procs : generated[p] <= 1

\* C6 (witness): a start record was refused and an ordinary record queued
\* while startSession was suspended on the registry.
C6_Witness ==
  \E p \in Procs, t \in Slots :
    /\ host[p].isStartingSession
    /\ host[p].messageQueue # <<>>
    /\ tasks[p][t].pc = "hm_after" /\ tasks[p][t].op = "start"
    /\ generated[p] = 1

\* C7: no record queued during a session start is discarded unwritten.
C7_NoSilentDrop == \A p \in Procs : dropped[p] = {}

Quiescent(p) == \A t \in Slots : tasks[p][t].pc = "idle"

\* C8: once a start record, N console records and an end record have been
\* handled, the session's log file holds exactly N console lines.
C8_Isolation ==
  (script["h1"] = <<>> /\ Quiescent("h1")) =>
    /\ DOMAIN logLines # {}
    /\ \A sid \in DOMAIN logLines : Len(logLines[sid]) = delivered["h1"] - 2

----------------------------------------------------------------------------
(* Properties of the Ingestion Decoder *)

\* A whole frame is at the front of the buffer.
CompleteFrame(buf) ==
  Len(buf) >= HEADER_BYTES /\ Len(buf) >= HEADER_BYTES + ReadUInt32LE(buf)

\* C9: however the byte stream is cut into chunks, the decoder passes on the
\* records it passes on when the stream arrives as one chunk; it parses no
\* frame before its declared length is buffered and leaves no complete frame
\* in the buffer after a chunk.
C9_Framing ==
  /\ ~parsedEarly
  /\ ~CompleteFrame(buffer)
  /\ pending = <<>> => handled = Drain(FrameBytes(stream), <<>>, FALSE).handled

\* C9 (witness): a record has been decoded and a chunk has ended inside the
\* next frame's 4-byte header.
C9_Witness ==
  /\ handled # <<>>
  /\ Len(buffer) \in 1..(HEADER_BYTES - 1)
  /\ pending # <<>>

\* The records of the valid texts, in order.
RECURSIVE Expected(_)
Expected(bodies) ==
  IF bodies = <<>> THEN <<>>
  ELSE (IF Head(bodies) \in ValidBodies THEN <<Head(bodies)[2]>> ELSE <<>>)
         \o Expected(Tail(bodies))

\* C10: both decoders hand on exactly the valid records of the stream, in
\* order, whatever malformed or schema-violating records lie between them.
C10_InvalidRecordsSkipped ==
  /\ IsPrefix(handled, Expected(stream))
  /\ IsPrefix(lineHandled, Expected(stream))
  /\ pending = <<>> => handled = Expected(stream)
  /\ linePending = <<>> => lineHandled = Expected(stream)

\* C10 (witness): both decoders have read a stream in which a valid record
\* follows a malformed one and a schema-violating one.
C10_Witness ==
  /\ pending = <<>> /\ linePending = <<>>
  /\ Len(stream) = 3
  /\ stream[1] = <<Ch.lbrace, Ch.c>>
  /\ stream[2] = <<Ch.lbrace, Ch.q, Ch.rbrace>>
  /\ stream[3] \in ValidBodies
  /\ handled = <<stream[3][2]>> /\ lineHandled = <<stream[3][2]>>

-----------------------------------------------------------------------------
(* Properties of the Redactor *)

\* C12: redactSecrets is idempotent: redacting an already redacted text
\* changes nothing, redactSecrets(redactSecrets(x)) = redactSecrets(x).
C12_Idempotent == Len(redactions) = 3 => redactions[3] = redactions[2]

\* C11: redaction precedes persistence: every free-text payload written into
\* a session log or registry file (stdout/stderr of the wrapped process,
\* console and error text, URL, stack trace, headers, bodies, the session
\* descriptor) is written as redactSecrets returned it.
C11_RedactionPrecedesPersistence ==
  \A i \in 1..Len(written) :
    \A j \in 1..Len(written[i].parts) :
      written[i].parts[j].out = RedactSecrets(written[i].parts[j].payload)

\* C13: session ids are unique: no two session starts receive the same id,
\* also when the ids are generated within the same clock tick by concurrent
\* processes.  Two hosts never have the same id as their current session.
C13_UniqueSessionIds ==
  \A p \in Procs, q \in Procs :
    (p # q /\ host[p].sessionId # NoSid) => host[p].sessionId # host[q].sessionId

-----------------------------------------------------------------------------
(* Properties of the Sweeper *)

\* C14: reclamation: once a sweep has run (every call it made has returned),
\* each session it found older than the staleness window is absent from the
\* ActiveTable, and its log file is in the archive directory when
\* retention > 0 and in neither directory when retention = 0.
C14_Reclamation ==
  \A p \in Procs :
    ~Sweeping(p) =>
      \A s \in sweep[p].found :
        /\ s \notin Keys(activeTable.data)
        /\ s \notin activeDir
        /\ (keepDays > 0) = (s \in inactiveDir)

\* A producer has the session open for writing and has appended to its log
\* within the staleness window.
LiveSession(s) ==
  /\ s \in DOMAIN mtime
  /\ now - mtime[s] <= MaxAgeMs
  /\ \E p \in Procs : /\ host[p].sessionId = s
                      /\ host[p].logStream.open
                      /\ ~host[p].logStream.ended
                      /\ host[p].logStream.sid = s

\* A step of a sweep's markBrowserSessionCompleted(s, true) removes s from the
\* ActiveTable or takes its log out of the active directory.
SweptNow(s) ==
  \E p \in Procs, t \in Slots :
    /\ tasks[p][t].op = "sweep"
    /\ tasks[p][t].sid = s
    /\ tasks'[p][t] # tasks[p][t]
    /\ \/ s \in Keys(activeTable.data) /\ s \notin Keys(activeTable'.data)
       \/ s \in activeDir /\ s \notin activeDir'

\* C15: the sweeper never finalizes a live session: no step of a sweep
\* removes from the ActiveTable, archives or deletes a session whose producer
\* has appended an event within the staleness window, even when the
\* session's startTime is older than the window.
C15_NoLiveSessionSwept ==
  [][\A s \in DOMAIN mtime : LiveSession(s) => ~SweptNow(s)]_vars

\* The log files some Log Writer has open for writing: createWriteStream has
\* returned and end() has not been called.
OpenForWriting ==
  {host[p].logStream.sid : p \in {q \in Procs : /\ host[q].logStream.open
                                                /\ ~host[q].logStream.ended}}

\* C16: no file of the archived directory is open for writing by a Log
\* Writer (so the retention pass never deletes a file a producer still has
\* open), for every interleaving of a producer with sweeps of other processes.
C16_ArchivedNeverOpen == OpenForWriting \cap inactiveDir = {}

-----------------------------------------------------------------------------
(* Properties of cancellation and of failures *)

\* C17: every cancellation trigger finalizes the session.  Once the input
\* stream of a host has closed and the host has nothing left to run, no
\* session of it is in the ActiveTable and no log of it is in the active
\* directory: the logs are in the archived directory when retention > 0 and
\* deleted when retention = 0.
C17_CancellationFinalizes ==
  (closed["h1"] /\ Quiescent("h1") /\ ~pendingError["h1"]) =>
    /\ Keys(activeTable.data) = {}
    /\ activeDir = {}
    /\ IF keepDays > 0 THEN DOMAIN logLines \subseteq inactiveDir
       ELSE inactiveDir = {}

\* C18: a lock timeout is not fatal.  When the connection's two records have
\* been handled, the session log is open in the active directory and holds
\* the console record, no error is pending and nothing was discarded, also
\* when acquireLock failed for registerBrowserSession or for
\* markBrowserSessionActive; the write whose lock is still blocked was skipped.
C18_LockTimeoutNonFatal ==
  (script["h1"] = <<>> /\ Quiescent("h1")) =>
    LET sid == host["h1"].sessionId
    IN  /\ sid # NoSid
        /\ host["h1"].logStream = [open |-> TRUE, sid |-> sid, ended |-> FALSE]
        /\ ~host["h1"].isStartingSession
        /\ sid \in activeDir
        /\ logLines[sid] = <<2>>
        /\ ~pendingError["h1"] /\ dropped["h1"] = {}
        /\ lockFile["master-index"].exists => ~masterIndex.exists
        /\ lockFile["active-sessions"].exists => ~activeTable.exists
        /\ masterIndex.exists \/ activeTable.exists

\* acquireLock failed for markBrowserSessionActive, the log was opened all the
\* same and the console record is in it.
C18_Witness ==
  /\ script["h1"] = <<>> /\ Quiescent("h1")
  /\ lockFile["active-sessions"].exists
  /\ ~activeTable.exists
  /\ host["h1"].logStream.open
  /\ logLines[host["h1"].sessionId] = <<2>>

\* The sessions a stream error has finalized: their log exists and no host
\* has them as its current session any more.
Finalized == DOMAIN logLines \ {host[p].sessionId : p \in Procs}

\* A finalized session is out of the ActiveTable and of the active directory.
FinalizedRemoved ==
  \A s \in Finalized : s \notin Keys(activeTable.data) /\ s \notin activeDir

\* A step of endSession's markBrowserSessionCompleted(s) leaves the registry
\* entries and the log files of every other session as they are.
OnlyThatSession ==
  \A p \in Procs, t \in Slots :
    (tasks[p][t].op = "end" /\ tasks'[p][t] # tasks[p][t]) =>
      /\ DeleteEntry(activeTable'.data, tasks[p][t].sid)
           = DeleteEntry(activeTable.data, tasks[p][t].sid)
      /\ activeDir' \ {tasks[p][t].sid} = activeDir \ {tasks[p][t].sid}
      /\ inactiveDir' \ {tasks[p][t].sid} = inactiveDir \ {tasks[p][t].sid}
      /\ masterIndex' = masterIndex

\* C19: a write error on a session's log stream finalizes only that session:
\* the session is removed from the ActiveTable and its log leaves the active
\* directory, and no other session's log or registry entry is changed.
C19_StreamErrorFinalizesOnlyThat == []FinalizedRemoved /\ [][OnlyThatSession]_vars

-----------------------------------------------------------------------------
(* Properties of the Log Reader/Aggregator *)

\* The lines of one file in what a reader returned, in the order returned.
LinesOf(sid) ==
  LET From(l) == l.kind = "line" /\ l.sid = sid IN SelectSeq(reader.out, From)

\* The lines a file offers: its lines with text; every piece of the legacy log.
Offered(sid) ==
  IF sid = LegacyLog THEN Pieces(LegacyLog, reader.legacy)
  ELSE FilteredLines(sid, reader.files[sid])

IsTail(t, s) == Len(t) <= Len(s) /\ t = SubSeq(s, Len(s) - Len(t) + 1, Len(s))

SeparatorsAt == {i \in DOMAIN reader.out : reader.out[i].kind = "separator"}

\* C21: aggregation output order: in what readRecentLogs or
\* readRecentBrowserLogs returns, the block of the most recently modified
\* session comes first and the blocks of older sessions follow in descending
\* recency, every line of a session stands behind the separator naming its
\* session, and the lines of a block are in the file's ascending order.
C21_OutputOrder ==
  reader.called # "none" =>
    /\ \A i, j \in SeparatorsAt :
         i < j => reader.files[reader.out[i].sid].mtime
                    >= reader.files[reader.out[j].sid].mtime
    /\ \A i \in DOMAIN reader.out :
         (reader.out[i].kind = "line" /\ reader.out[i].sid # LegacyLog) =>
           \E k \in SeparatorsAt :
             /\ k < i
             /\ reader.out[k].sid = reader.out[i].sid
             /\ \A m \in SeparatorsAt : m <= k \/ m > i
    /\ \A i, j \in DOMAIN reader.out :
         (/\ i < j
          /\ reader.out[i].kind = "line" /\ reader.out[j].kind = "line"
          /\ reader.out[i].sid = reader.out[j].sid) =>
           reader.out[i].idx < reader.out[j].idx

\* What is on disk once the sessions and logs of every other project than
\* the reader's are removed.
OnlyOwnProject(d) ==
  [d EXCEPT
     !.active = [s \in ProjectSessions |->
                   IF d.active[s] = d.cwd THEN d.cwd ELSE Unlisted],
     !.files = [s \in ProjectSessions |->
                  IF d.active[s] = d.cwd THEN d.files[s] ELSE MissingFile],
     !.legacy = IF d.legacyCwd = d.cwd THEN d.legacy ELSE MissingFile]

\* What the reader that was called returns for what is on disk.
ResultFor(d) ==
  IF d.called = "readRecentLogs"
  THEN ReadRecentLogs(d.totalLines, MAX_FILES, d.cwd, d)
  ELSE ReadRecentBrowserLogs(d.totalLines, MAX_FILES, d.cwd, d)

\* C22: project isolation of reads: what readRecentLogs or
\* readRecentBrowserLogs returns for project directory P holds only lines
\* logged for P, and it is what the reader returns when the sessions and
\* logs of every other project are removed.
C22_ProjectIsolation ==
  reader.called # "none" =>
    /\ \A i \in DOMAIN reader.out :
         reader.out[i].kind = "line" =>
           IF reader.out[i].sid = LegacyLog THEN reader.legacyCwd = reader.cwd
           ELSE reader.active[reader.out[i].sid] = reader.cwd
    /\ reader.out = ResultFor(OnlyOwnProject(reader))

\* No session of the reader's project has a log file in the directory read.
NoSessionMatches ==
  \A s \in ProjectSessions :
    ~(reader.active[s] = reader.cwd /\ reader.files[s].mtime > 0)

\* C23: an empty result is a value, not an error: when no session matches
\* the requested project, readRecentLogs and readRecentBrowserLogs raise no
\* error and return the placeholder, except that readRecentLogs returns the
\* tail of the legacy log when that file exists.
C23_EmptyResultIsValue ==
  (reader.called # "none" /\ NoSessionMatches) =>
    IF reader.called = "readRecentLogs" /\ reader.legacy.mtime > 0
    THEN reader.out = SliceLast(Pieces(LegacyLog, reader.legacy), reader.totalLines)
    ELSE reader.out = <<Placeholder>>

-----------------------------------------------------------------------------
(* Properties of ordering, recovery and rate limiting *)

\* C24: arrival order is preserved in the log: the lines of a session's log
\* file are in the order in which their records were received, records that
\* were queued during the session start included.
C24_ArrivalOrder ==
  \A sid \in DOMAIN logLines :
    \A i, j \in DOMAIN logLines[sid] : i < j => logLines[sid][i] < logLines[sid][j]

\* A step of the task in slot t of process p from the position pc.
StepsFrom(p, t, pc) == tasks[p][t].pc = pc /\ tasks'[p][t] # tasks[p][t]

\* C25: timeout handling of acquireLock: when the timeout has elapsed and the
\* sentinel is older than the staleness threshold, acquireLock removes the
\* sentinel and tries the acquisition again (it returns true if it obtains
\* the lock); when the sentinel is younger, it returns false and leaves the
\* sentinel in place.
C25_TimeoutRetry ==
  [][\A p \in Procs, t \in Slots :
       /\ StepsFrom(p, t, "acq_unlink") =>
            /\ ~lockFile'[LockOf(tasks[p][t].stage)].exists
            /\ tasks'[p][t].stage = tasks[p][t].stage
            /\ tasks'[p][t].pc \in {"acq_check", "acq_write"}
       /\ (StepsFrom(p, t, "acq_stale") /\ ~IsStale(LockOf(tasks[p][t].stage))) =>
            /\ lockFile' = lockFile
            /\ tasks'[p][t] = LockFailed(tasks[p][t])]_vars

\* The sentinel of a lock belongs to a process that was killed holding it.
LockOrphaned(l) == lockFile[l].exists /\ lockFile[l].pid = "killed"

\* An acquireLock on the name has returned true: its caller is in the
\* critical section.
LockAcquired(l) == \E p \in Procs, t \in Slots : HoldsLock(p, t, l)

\* C26: crash recovery of the lock: when a process was killed between
\* acquireLock and releaseLock, then, as time advances and registry writes
\* keep being attempted, a later acquireLock on that name returns true.
C26_LockRecovers ==
  \A l \in LockNames : LockOrphaned(l) ~> LockAcquired(l)

\* C26 (witness): attempts on the lock timed out against the sentinel of the
\* killed process, the sentinel is gone and the host holds the lock.
C26_Witness ==
  \E l \in LockNames, t \in Slots :
    /\ HoldsLock("h1", t, l)
    /\ lockFile[l].exists /\ lockFile[l].pid = "h1"
    /\ now >= TICK_MS
    /\ l = "master-index" => (delivered["h1"] > 1 /\ masterIndex.data = <<>>)
    /\ l = "active-sessions" => ~activeTable.exists

-----------------------------------------------------------------------------
(* Properties of repair, resurrection, crash atomicity and rate limiting *)

\* A log file in the active directory that has no ActiveTable entry and that
\* no running host has open or is about to register or finalize.
Orphan(s) ==
  /\ s \in activeDir
  /\ s \notin Keys(activeTable.data)
  /\ \A p \in Procs : host[p].sessionId # s
  /\ \A p \in Procs, t \in Slots : tasks[p][t].sid # s /\ tasks[p][t].file # s

\* The ids a session can have in these runs: those generated at the start of
\* the run or once the staleness window has passed.
RepairIds ==
  {<<n, r>> : n \in {0, (MINUTES_PER_DAY * MS_PER_MINUTE + 1) \div 1000},
              r \in RandVals}

\* C27: orphan repair: a log file left in the active directory with no
\* ActiveTable entry is eventually archived or deleted by a later sweep.
C27_OrphanRepair ==
  \A s \in RepairIds : Orphan(s) ~> (s \notin activeDir)

\* The ids a session can have in the runs that start at time 0.
StartIds == {GenerateBrowserSessionId(r) : r \in RandVals}

\* markBrowserSessionCompleted has taken the id out of the ActiveTable: the
\* call has written the table and is releasing the lock or moving the file,
\* or it has moved the file already.
Completed(s) ==
  /\ s \notin Keys(activeTable.data)
  /\ \/ s \in inactiveDir
     \/ \E p \in Procs, t \in Slots :
          /\ tasks[p][t].stage = "markCompleted"
          /\ tasks[p][t].sid = s
          /\ tasks[p][t].pc \in {"release", "mc_move"}
          /\ activeTable.exists

\* The step is the table write of a markBrowserSessionActive(s).
MarksActive(s) == s \in expectedActive' /\ s \notin expectedActive

\* C28: a session is never resurrected: once markCompleted has removed a
\* session id from the ActiveTable, no later read-modify-write of the table
\* made for another session puts that id back.
C28_NoResurrection ==
  [][\A s \in StartIds :
       (Completed(s) /\ ~MarksActive(s)) => s \notin Keys(activeTable'.data)]_vars

\* C29: registry writes are crash-atomic: when a process has been killed
\* during a write of the ActiveTable, the file holds the complete previous or
\* the complete new table, never a text cut short, and no later
\* markSessionActive, markSessionCompleted or getActiveSessions fails on it.
C29_CrashAtomicWrites ==
  /\ (\A p \in CrashProcs : ~InWriteFileSync(p)) => ~JsonParseThrows
  /\ \A p \in CrashProcs : Caller(p).result # "threw"

RECURSIVE AcceptedIn(_, _, _)
\* The number of records accepted at clock values from..from + RATE_WINDOW_MS - 1.
AcceptedIn(acc, from, sum) ==
  IF acc = {} THEN sum
  ELSE LET e == CHOOSE x \in acc : TRUE
       IN AcceptedIn(acc \ {e}, from,
                     IF from <= e[1] /\ e[1] < from + RATE_WINDOW_MS
                     THEN sum + e[2] ELSE sum)

\* C30: the rate limit holds over a sliding window: in every interval of one
\* second, wherever it starts, checkRateLimit accepts at most
\* MAX_MESSAGES_PER_SECOND records (an interval that starts at the moment of
\* an accepted record stands for every interval that holds that record
\* first), and a record beyond the limit is dropped, not queued.
C30_SlidingWindow ==
  /\ \A e \in accepted : AcceptedIn(accepted, e[1], 0) <= MAX_MESSAGES_PER_SECOND
  /\ \A p \in Procs : host[p].messageQueue = <<>>

-----------------------------------------------------------------------------
(* Properties of the frame bound, the sweep's errors and the redaction rules *)

\* C31: a frame whose header declares a length above the maximum is dropped:
\* while the decoder waits for a body its buffer holds at most the header and
\* a body of the maximum length, no oversized frame is passed to
\* handleMessage, and the frames that follow it are decoded.
C31_FrameLengthBound ==
  /\ Len(buffer) <= HEADER_BYTES + MaxFrameLength
  /\ IsPrefix(handled, Expected(stream))
  /\ pending = <<>> => handled = Expected(stream)

\* C32: the sweep survives filesystem errors: a call of cleanupStaleSessions
\* or cleanupOldInactiveLogs in which the rename or delete of a file failed
\* returns all the same, and has dealt with every other stale entry and
\* every other expired file it found.
C32_SweepSurvivesErrors ==
  \A p \in Procs :
    sweep[p].pc \in {"returned", "threw"} =>
      /\ sweep[p].pc = "returned"
      /\ sweep[p].call = "cleanupStaleSessions" =>
           \A s \in sweep[p].found :
             s \notin Keys(activeTable.data) /\ (s \in activeDir => s \in sweep[p].failed)
      /\ sweep[p].call = "cleanupOldInactiveLogs" =>
           \A s \in sweep[p].found : s \in inactiveDir => s \in sweep[p].failed

\* The positions of the earlier rule's output that this rule wrote.
WrittenByEarlier(text) ==
  LET marks == IF IsHeaderText(text) THEN BearerMarks(text, 1)
               ELSE GenericMarks(text, 1)
  IN {i \in 1..Len(marks) : marks[i]}

\* The positions of the earlier rule's output that the later rule matches.
MatchedByLater(text) ==
  IF IsHeaderText(text) THEN AuthorizationCovered(AfterEarlier(text), 1)
  ELSE ExportCovered(AfterEarlier(text), 1)

\* C33: no cascading re-redaction: the replacement text that an earlier rule
\* of SECRET_PATTERNS wrote is not matched and rewritten by a later rule.
C33_NoCascade ==
  Len(redactions) = 3 =>
    WrittenByEarlier(redactions[1]) \cap MatchedByLater(redactions[1]) = {}

-----------------------------------------------------------------------------
(* Properties of the host's session state *)

\* C34: whenever no startSession or endSession call of a host is suspended,
\* its sessionId and its logStream are both null or both set.
C34_HostStateConsistent ==
  \A p \in Procs :
    Quiescent(p) => (host[p].sessionId = NoSid <=> ~host[p].logStream.open)

\* The finally block of an endSession call that was made for another session
\* than the host's current one runs in this step.
LaterFinalize(p, t) ==
  /\ tasks[p][t].pc = "es_finally"
  /\ tasks'[p][t] # tasks[p][t]
  /\ host[p].sessionId # NoSid
  /\ host[p].sessionId # tasks[p][t].sid

\* C35: finalize is re-entrant.  When several triggers call endSession for
\* one session, a session started after the first of the calls completed is
\* not reset or closed by the later ones: the finally block of a call made for
\* an earlier session leaves the host's session id and log stream as they are.
C35_FinalizeReentrant ==
  [][\A p \in Procs, t \in Slots :
       LaterFinalize(p, t) =>
         /\ host'[p].sessionId = host[p].sessionId
         /\ host'[p].logStream = host[p].logStream]_vars

\* A step in which write() is called on a log stream that endSession has
\* ended: the stream answers with an 'error' event (write after end).
WriteAfterEnd(p) ==
  /\ host[p].logStream.ended
  /\ ~pendingError[p]
  /\ pendingError'[p]

\* C36: once endSession has called end() on a session's log stream, no event
\* line is written to that stream, also not for a record that arrives while
\* endSession is suspended in markBrowserSessionCompleted.
C36_NoWriteAfterEnd == [][\A p \in Procs : ~WriteAfterEnd(p)]_vars

\* The stale-sentinel removal of acquireLock(l) runs in this step.
StaleCleanup(p, t, l) ==
  /\ tasks[p][t].pc = "acq_unlink"
  /\ tasks'[p][t] # tasks[p][t]
  /\ LockOf(tasks[p][t].stage) = l

\* C37: the stale-sentinel removal of acquireLock deletes only the sentinel
\* whose age it checked, never one that a live process has written between
\* the age check and the unlink.
C37_StaleCleanupSafe ==
  [][\A p \in Procs, t \in Slots, l \in LockNames :
       (StaleCleanup(p, t, l) /\ lockFile[l].exists) =>
         (lockFile[l].pid \notin Procs /\ IsStale(l))]_vars

-----------------------------------------------------------------------------
(* Properties of the lock's release, the readers and the rate limiter *)

\* A call of a registry function by process p is between the check of
\* acquireLock(l) that it passed and its releaseLock(l).
InsideLock(p, l) ==
  \E t \in Slots :
    \/ tasks[p][t].pc = "acq_write" /\ LockOf(tasks[p][t].stage) = l
    \/ HoldsLock(p, t, l)

C39_ReadersTolerateFinalize ==
  reader.called = "readRecentBrowserLogs" => reader.out # <<Thrown>>

\* C40: lifecycle records bypass the rate limiter.  A session-end record that
\* arrives while the host's log stream is open always reaches endSession,
\* which ends the stream, however many records the host has counted in the
\* current second.
C40_LifecycleBypassesLimit ==
  [][\A p \in Procs, r \in RandVals :
       (Deliver(p, "session-end", r) /\ host[p].logStream.open) =>
         (host'[p].logStream.ended \/ ~host'[p].logStream.open)]_vars

====
